----------------------------- MODULE ClauseLibrary -----------------------------
(***************************************************************************)
(* Which clauses an analysis checks for.  regulatory_db.json holds a list  *)
(* per tenant.  The API keeps one copy of it as it is (backend/api/        *)
(* routes.py, _REG_DB), the compliance agent another without the clauses   *)
(* that do not validate (backend/agents/compliance_agent.py,               *)
(* _regulatory_db).  Approving or undoing a recommendation changes the     *)
(* file and reloads both; posting a tenant's clauses writes a file of its  *)
(* own.  A run reads the agent's list at its compliance check and leaves   *)
(* its verdict in the cache of its document.                               *)
(*                                                                         *)
(* One document type; a list is a set of clauses, one for each name in     *)
(* lower case.  Approving takes names that differ in surrounding blanks    *)
(* for two, undoing strips the blanks.  Who may change what at the same    *)
(* time in the table of recommendations is Insights' business: here a      *)
(* clause has one recommendation at a time.                                *)
(***************************************************************************)
EXTENDS Naturals

CONSTANTS
    Tenants,      \* tenant ids
    Default,      \* the id "default"
    Upper,        \* Upper[t]: t in capital letters
    Clauses,
    Stripped,     \* Stripped[c]: the name of c without surrounding blanks
    Valid,        \* the clauses with a name and a risk level that is one
    Shipped,      \* regulatory_db.json in the repository
    Payloads,     \* the lists a tenant's clauses may be replaced by
    Runs, Docs,
    DocOf,        \* DocOf[r]: the document that run r analyses
    TenantOf,     \* TenantOf[d]: _infer_tenant of document d
    MaxChanges    \* bound: how often the file is changed

Lists == SUBSET Clauses
Databases == UNION {[ts -> Lists] : ts \in SUBSET Tenants}

ASSUME TenantsAssumption ==
    /\ Default \in Tenants
    /\ Upper \in [Tenants -> Tenants]
ASSUME ClausesAssumption ==
    /\ DOMAIN Stripped = Clauses
    /\ Valid \subseteq Clauses
    /\ Payloads \subseteq SUBSET Valid     \* _validate_clauses_payload
    /\ Shipped \in Databases
    /\ Default \in DOMAIN Shipped
ASSUME RunsAssumption ==
    /\ DocOf \in [Runs -> Docs]
    /\ TenantOf \in [Docs -> Tenants]
    /\ MaxChanges \in Nat

VARIABLES
    file,         \* regulatory_db.json
    torn,         \* write_text was cut short: the file does not parse
    custom,       \* the files under custom_clauses/, by tenant
    api,          \* routes._REG_DB
    agent,        \* compliance_agent._regulatory_db
    serving,      \* the process is up
    status,       \* of a clause's recommendation
    officer,      \* the request about a clause that awaits its new status
    run,          \* where a run is
    judged,       \* the list a run has judged by
    fresh,        \* history: the runs that began after the copies last changed
    cache,        \* doc_cache: the lists the cached verdicts are about
    version,      \* history: how often the file has been changed
    lagging,      \* history: the agent has failed to reload since the last time
                  \* it did
    interrupted,  \* history: the clauses for which a request was cut short
                  \* between the file and the status
    swept         \* history: the clauses that undoing another one of the same
                  \* name but for blanks has taken away since they were
                  \* approved

vars == <<file, torn, custom, api, agent, serving, status, officer, run, judged,
          fresh, cache, version, lagging, interrupted, swept>>

library == <<file, torn, api, agent, version, lagging>>
work    == <<run, judged, fresh, cache>>
insight == <<status, officer, interrupted, swept>>

TypeOK ==
    /\ {file, api, agent, custom} \subseteq Databases
    /\ {torn, serving, lagging} \subseteq BOOLEAN
    /\ status \in [Clauses -> {"none", "pending", "approved", "undone"}]
    /\ officer \in [Clauses -> {"idle", "approving", "undoing"}]
    /\ run \in [Runs -> {"idle", "begun", "judged"}]
    /\ judged \in [Runs -> Lists]
    /\ fresh \subseteq Runs
    /\ cache \in UNION {[ds -> Lists] : ds \in SUBSET Docs}
    /\ version \in Nat
    /\ interrupted \subseteq Clauses
    /\ swept \subseteq Clauses

\* _load_and_validate_regulatory_db.
Validated(db) == [t \in DOMAIN db |-> db[t] \cap Valid]

\* query_regulatory_db: a tenant's list, or the default one.
QueryRegulatoryDb(db, t) ==
    CASE t \in DOMAIN db        -> db[t]
      [] Upper[t] \in DOMAIN db -> db[Upper[t]]
      [] OTHER                  -> db[Default]

\* _load_tenant_clauses, as a set with the one list, or with none.
LoadTenantClauses(t) ==
    CASE t \in DOMAIN custom     -> {custom[t]}
      [] t \in DOMAIN api        -> {api[t]}
      [] Upper[t] \in DOMAIN api -> {api[Upper[t]]}
      [] OTHER                   -> {}

Init ==
    /\ file = Shipped
    /\ torn = FALSE
    /\ custom = [t \in {} |-> {}]
    /\ api = Shipped
    /\ agent = Validated(Shipped)
    /\ serving = TRUE
    /\ status = [c \in Clauses |-> "none"]
    /\ officer = [c \in Clauses |-> "idle"]
    /\ run = [r \in Runs |-> "idle"]
    /\ judged = [r \in Runs |-> {}]
    /\ fresh = {}
    /\ cache = [d \in {} |-> {}]
    /\ version = 0
    /\ lagging = FALSE
    /\ interrupted = {}
    /\ swept = {}

-----------------------------------------------------------------------------
(* The library changes.                                                     *)

\* Faulty: the agent is not told.
WriteAndReloadApiOnly(db) ==
    /\ version < MaxChanges
    /\ file' = db
    /\ api' = db
    /\ UNCHANGED <<agent, lagging>>
    /\ version' = version + 1
    /\ fresh' = {}
    /\ UNCHANGED <<torn, run, judged, cache>>

\* Faulty: the agent's copy is not validated.
WriteAndReloadUnvalidated(db) ==
    /\ version < MaxChanges
    /\ file' = db
    /\ api' = db
    /\ \/ agent' = db /\ lagging' = FALSE
       \/ agent' = agent /\ lagging' = TRUE
    /\ version' = version + 1
    /\ fresh' = {}
    /\ UNCHANGED <<torn, run, judged, cache>>

\* write_text and reload_reg_db, in one go: the agent's reload may fail, which
\* is logged and forgotten.
WriteAndReload(db) ==
    /\ version < MaxChanges
    /\ file' = db
    /\ api' = db
    /\ \/ agent' = Validated(db) /\ lagging' = FALSE
       \/ agent' = agent /\ lagging' = TRUE
    /\ version' = version + 1
    /\ fresh' = {}
    /\ UNCHANGED <<torn, run, judged, cache>>

\* reload_reg_db's own read raises: the file has changed, the copies have not.
WriteAndRaise(db) ==
    /\ version < MaxChanges
    /\ file' = db
    /\ version' = version + 1
    /\ UNCHANGED <<torn, api, agent, lagging, work>>

\* A request about c changes the file and goes on to its await, or ends there.
Change(c, db, doing) ==
    \/ /\ WriteAndReload(db)
       /\ officer' = [officer EXCEPT ![c] = doing]
       /\ UNCHANGED interrupted
    \/ /\ WriteAndRaise(db)
       /\ interrupted' = interrupted \cup {c}
       /\ UNCHANGED officer

WithClause(db, c) ==
    [t \in DOMAIN db |-> IF t = Default THEN db[t] \cup {c} ELSE db[t]]

SameName(c, d) == Stripped[c] = Stripped[d]
Namesakes(c)   == {d \in Clauses \ {c} : SameName(d, c)}

\* Faulty: the comparison is the wrong way round.
WithoutOthers(db, c) ==
    [t \in DOMAIN db |-> {d \in db[t] : SameName(d, c)}]

\* Of every tenant, and with its namesakes.
WithoutClause(db, c) ==
    [t \in DOMAIN db |-> {d \in db[t] : ~ SameName(d, c)}]

\* A review of the feedback recommends the clause.
CreateRecommendation(c) ==
    /\ serving
    /\ status[c] \in {"none", "undone"}
    /\ officer[c] = "idle"
    /\ status' = [status EXCEPT ![c] = "pending"]
    /\ UNCHANGED <<library, custom, serving, work, officer, interrupted,
                   swept>>

\* approve_recommendation up to its await, for a clause the default list does
\* not have; a file that does not parse is an error before anything is done.
ApproveClause(c) ==
    /\ serving
    /\ status[c] = "pending"
    /\ officer[c] = "idle"
    /\ ~ torn
    /\ c \notin file[Default]
    /\ Change(c, WithClause(file, c), "approving")
    /\ swept' = swept \ {c}
    /\ UNCHANGED <<custom, serving, status>>

\* undo_recommendation up to its await (_remove_clause_from_reg_db).
UndoClause(c) ==
    /\ serving
    /\ status[c] = "approved"
    /\ officer[c] = "idle"
    /\ ~ torn
    /\ Change(c, WithoutClause(file, c), "undoing")
    /\ swept' = swept \cup Namesakes(c)
    /\ UNCHANGED <<custom, serving, status>>

\* write_text fails half way: an answer of 500, and copies as they were.
WriteFails(c) ==
    /\ serving
    /\ officer[c] = "idle"
    /\ \/ status[c] = "pending" /\ c \notin file[Default]
       \/ status[c] = "approved"
    /\ torn' = TRUE
    /\ UNCHANGED <<file, api, agent, version, lagging, custom, serving, work,
                   insight>>

\* set_recommendation_status, the end of the request.
MarkRecommendation(c) ==
    /\ officer[c] # "idle"
    /\ status' = [status EXCEPT ![c] =
          IF officer[c] = "approving" THEN "approved" ELSE "undone"]
    /\ officer' = [officer EXCEPT ![c] = "idle"]
    /\ UNCHANGED <<library, custom, serving, work, interrupted, swept>>

MarkFails(c) ==
    /\ officer[c] # "idle"
    /\ officer' = [officer EXCEPT ![c] = "idle"]
    /\ interrupted' = interrupted \cup {c}
    /\ UNCHANGED <<library, custom, serving, work, status, swept>>

\* post_clauses: a file of the tenant's own, which only get_clauses reads.
PostClauses(t, list) ==
    /\ serving
    /\ custom' = [u \in DOMAIN custom \cup {t} |->
                     IF u = t THEN list ELSE custom[u]]
    /\ UNCHANGED <<library, serving, work, insight>>

-----------------------------------------------------------------------------
(* Runs.                                                                    *)

Without(d) == [e \in DOMAIN cache \ {d} |-> cache[e]]

\* No cached verdict, or one that force_refresh deletes.  (With a cached one
\* there is no run, and nothing changes.)
BeginRun(r) ==
    /\ serving
    /\ run[r] = "idle"
    /\ run' = [run EXCEPT ![r] = "begun"]
    /\ fresh' = fresh \cup {r}
    /\ cache' = Without(DocOf[r])
    /\ UNCHANGED <<library, custom, serving, insight, judged>>

\* Faulty: every document is judged by the default list.
JudgeByDefault(r) ==
    /\ run[r] = "begun"
    /\ run' = [run EXCEPT ![r] = "judged"]
    /\ judged' = [judged EXCEPT ![r] = QueryRegulatoryDb(agent, Default)]
    /\ UNCHANGED <<library, custom, serving, insight, fresh, cache>>

\* The compliance check reads its list.
Judge(r) ==
    /\ run[r] = "begun"
    /\ run' = [run EXCEPT ![r] = "judged"]
    /\ judged' = [judged EXCEPT ![r] = QueryRegulatoryDb(agent, TenantOf[DocOf[r]])]
    /\ UNCHANGED <<library, custom, serving, insight, fresh, cache>>

\* insert_doc_cache, whatever is there by now.
EndRun(r) ==
    /\ run[r] = "judged"
    /\ run' = [run EXCEPT ![r] = "idle"]
    /\ cache' = [d \in DOMAIN cache \cup {DocOf[r]} |->
                    IF d = DocOf[r] THEN judged[r] ELSE cache[d]]
    /\ judged' = [judged EXCEPT ![r] = {}]
    /\ fresh' = fresh \ {r}
    /\ UNCHANGED <<library, custom, serving, insight>>

RunFails(r) ==
    /\ run[r] # "idle"
    /\ run' = [run EXCEPT ![r] = "idle"]
    /\ judged' = [judged EXCEPT ![r] = {}]
    /\ fresh' = fresh \ {r}
    /\ UNCHANGED <<library, custom, serving, insight, cache>>

-----------------------------------------------------------------------------
(* The process.                                                             *)

Crash ==
    /\ serving
    /\ serving' = FALSE
    /\ run' = [r \in Runs |-> "idle"]
    /\ judged' = [r \in Runs |-> {}]
    /\ fresh' = {}
    /\ officer' = [c \in Clauses |-> "idle"]
    /\ interrupted' = interrupted \cup {c \in Clauses : officer[c] # "idle"}
    /\ UNCHANGED <<library, custom, cache, status, swept>>

\* Both modules load the file when they are imported; a torn one keeps the
\* service down.
Start ==
    /\ ~ serving
    /\ ~ torn
    /\ serving' = TRUE
    /\ api' = file
    /\ agent' = Validated(file)
    /\ lagging' = FALSE
    /\ UNCHANGED <<file, torn, version, custom, work, insight>>

Next ==
    \/ \E c \in Clauses :
          \/ CreateRecommendation(c)
          \/ ApproveClause(c)
          \/ UndoClause(c)
          \/ WriteFails(c)
          \/ MarkRecommendation(c)
          \/ MarkFails(c)
    \/ \E t \in Tenants, list \in Payloads : PostClauses(t, list)
    \/ \E r \in Runs : BeginRun(r) \/ Judge(r) \/ EndRun(r) \/ RunFails(r)
    \/ Crash
    \/ Start

Spec == Init /\ [][Next]_vars

-----------------------------------------------------------------------------
(* Properties.                                                              *)

\* What the API shows of a tenant's clauses is what analyses check for, but
\* for clauses that do not validate: if the agent's last reload worked, and
\* nobody has posted clauses for the tenant, the two copies and the two ways to
\* look a tenant up agree, whatever was approved, undone, cut short or lost.
ShownIsUsed ==
    \A t \in Tenants \ DOMAIN custom :
        serving /\ ~ lagging =>
            \A list \in LoadTenantClauses(t) :
                QueryRegulatoryDb(agent, t) = list \cap Valid

\* A clause with a status has the effect the status says: an approved one is
\* checked for in the default profile if its level is a level, and only then,
\* unless a request about it was cut short, or somebody undid another one whose
\* name is the same but for blanks.  (Then it is gone and stays "approved".)
ApprovedIsApplied ==
    \A c \in Clauses :
        (/\ status[c] = "approved"
         /\ officer[c] = "idle"
         /\ c \notin interrupted \cup swept
         /\ serving
         /\ ~ lagging) =>
            (c \in agent[Default] <=> c \in Valid)

\* A run that began after the last change of the process's list leaves a
\* verdict under the list that is in force; one that began earlier may leave an
\* older one, and nothing renews it (approving and undoing leave the cache
\* alone).
RefreshedIsCurrent ==
    [][\A r \in Runs :
          EndRun(r) /\ r \in fresh /\ ~ lagging =>
              cache'[DocOf[r]] =
                  QueryRegulatoryDb(Validated(api), TenantOf[DocOf[r]])]_vars

=============================================================================
