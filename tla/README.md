# Sentinel Enterprise: specifications and proofs

TLA+ models of the Sentinel Enterprise backend and of the batch page of its client, the
TLC configurations that check them on small instances, and TLAPS proofs that hold for
every instance. Paths below are relative to the repository's root; `routes.py` is
`backend/api/routes.py` and `history_store.py` is `backend/data/history_store.py`.

## The system

A compliance officer uploads a document. A LangGraph pipeline screens it,
classifies it, compares it with the clauses a regulatory database requires for
its type, has a second LLM judge the comparison, and issues APPROVED, REJECTED
or ESCALATE. Verdicts are stored, cached by document hash and served as a
stream of events. Whole ZIPs are analysed as background jobs. Officers rate
verdicts; a review agent turns the ratings into recommendations; approving one
changes the regulatory database or the few-shot examples that the next analysis
uses.

| Component | State | Operations | Hard because |
|---|---|---|---|
| Agent pipeline (`agents/graph.py`, `*_agent.py`, `eval_judge.py`) | the state of a run: node, type, confidence, clause list, report, score, decision, retry counter | guardrail, router, expiry, compliance, evaluator, retry, escalate | retry loop, order of overrides, the clause list is read before an await and used after it, an LLM may answer anything |
| Regulatory database, few-shot file | two files, two copies in the process, tenants' own files | load, approve, undo, post, show | changed while runs are under way; two copies, three readers; cached verdicts outlive the list |
| Recommendations and blacklist (`routes.py` 1749-1860) | two SQLite tables | approve, reject, undo | effects on files and tables that no transaction joins; read, await, write |
| Review agent (`review_agent.py`) | none of its own | load, group, ask, check, insert | looks, then inserts two awaits later; its queries fail open; an LLM's list may be malformed anywhere |
| Analyses (`_stream_graph`, `_save_to_history`, `history_store.py`) | `analyses`, `failed_analyses`, `doc_cache` | upload, e-mail, re-analysis, batch item, officer's decision | three tables written one after the other; clients hang up, inserts fail, runs of one document overlap |
| Batch jobs (`_process_batch`, `_process_batch_reanalyze`) | `batch_jobs`, tasks, a semaphore | create, run items, collect, update | tasks finish in any order, share permits between jobs, and die with the process |
| Feedback and corrections log | `feedback`, a JSONL file | submit, ignore | appends and rewrites run as background tasks in threads, after the responses |
| Document intake (`file_extractor.py`, `pdf_extractor.py`) | none | extract, refuse | seven sorts of file, OCR that may be missing, limits, unbalanced HTML |
| Clause index (`embeddings.py`) and `_build_context` | FAISS in the process and on disk, or OpenSearch | load, build, save, search; pick chunks under a budget | built in threads, chunk by chunk; an index on the server is taken for complete as soon as it exists |
| Batch page (`BatchUpload.tsx`) | React state, an interval, localStorage | open, leave, drop a ZIP, re-analyse, poll, clear | polls overlap, come late, fail, or come back to a page that was left |
| Rest of the client (`frontend/sentinel-ui/src`) | React state | upload, override, forms | late answers, lost errors |
| Authentication, metrics, reports | none that matters | | |
| Deployment (`infra`, workflows) | | | one uvicorn worker |

How they interact. Everything runs in one process with one asyncio loop
(`infra/deploy-backend.sh:176` starts one worker). A handler runs until its next
`await`; other handlers run there. Every `history_store` call opens its own
connection, commits and closes: it is one atomic step, it may raise, and
between two of them the client may leave or the process may be killed. File
access is synchronous and thus atomic with the code around it. LangGraph runs
its nodes one at a time per run; `compliance_node` is the only one that awaits
between reading shared state and using it.

What makes each component correct:

* pipeline: a verdict rests on the last attempt, made with one clause list, and
  judged faithful; risk and doubt go to a human; a run ends.
* recommendations: what is in force is what is approved; the blacklist is what
  was rejected; no clause is listed twice; a status only moves forward.
* analyses: history, failures and cache do not contradict each other; nothing
  is shown that is not stored; no re-analysis gets a blocked document another
  verdict from the cache; an officer's decision stays.
* feedback: the log the review agent learns from holds the feedback that stands.
* batch jobs: no permit is lost, no result is filed under a wrong name, a
  completed job is complete, and jobs are completed.
* review agent: every stream ends; "done" means that no sound proposal was lost;
  the stores see nothing but what a review may do.
* regulatory database: what is shown is what is used, what is approved is
  applied, and a refreshed verdict is under the list in force.
* intake and evidence: what a reader sees of a document is what is analysed, and
  the LLM reads the best chunk for every clause and what the report cites of it.
* clause index: a run searches its own document, all of it, once.
* batch page: the job remembered is the one whose end has not been shown, and the
  end is shown.

`PROJECT.json` lists the hazards at the lines where they bite.

## Modules

| Module | Models | Checked by | Proved in |
|---|---|---|---|
| `AnalysisContract` | what one analysis promises | (abstract) | |
| `Pipeline` | one run of the agent graph; the officer's changes | `MCPipeline` | `PipelineProofs` |
| `Intake` | extraction from each file format (operators) | `MCEvidence` | `EvidenceProofs` (HTML) |
| `Evidence` | one document from its upload to the evidence of the report; extends `Intake` | `MCEvidence` | `EvidenceProofs` |
| `ClauseIndex` | the vector indexes of documents | `MCClauseIndex` | `ClauseIndexProofs` |
| `ClauseLibrary` | the clause lists, their copies, and cached verdicts | `MCClauseLibrary` | `ClauseLibraryProofs` |
| `Insights` | recommendations, blacklist, a review's two awaits, both files | `MCInsights` | `InsightsProofs` |
| `ReviewAgent` | a whole run of the review agent; implements `Insights` | `MCReviewAgent` | `InsightsProofs` |
| `AnalysisStore` | uploads, e-mails, re-analyses and batch items over three tables | `MCAnalysisStore` | `AnalysisStoreProofs` |
| `FeedbackLog` | feedback and the log of corrections | `MCFeedbackLog` | `FeedbackLogProofs` |
| `JobRow` | the rows of `batch_jobs`, which the next four share | (declarations) | |
| `JobContract` | what polling a job promises | (abstract) | |
| `BatchJob` | jobs, tasks, semaphore; implements `JobContract` | `MCBatchJob` | `BatchJobProofs` |
| `BatchPage` | the batch tab of a browser; its server is `JobContract` | `MCBatchPage` | `BatchJobProofs` |
| `BatchSystem` | the batch tab in front of `BatchJob` itself | (its parts) | `BatchJobProofs` |

### Pipeline

`pc` is the node to run next; the other variables are the fields of
`AgentState` that decide something. One action per node, named for it.
`compliance_node` is two: `Compliance` reads the clause list and, if there is
anything to compare, stops at the await of `build_index_async`; `JudgeClauses`
goes on with what was read. `ReloadRegulatoryDb`, which is an approval or an
undo by the officer, may happen between any two steps, this await included.
An LLM's answer is anything its parser accepts: any category, any set of
missing clauses, a faithful, unfaithful, NaN or unreadable score. The latter
two count as 1.0 and 0.5, as in `_parse_eval`. A confidence and a score are on
one side of their threshold or on the other. `ClauseVerdict` and
`ComplianceVerdict` are the decision table of `compliance_node` in the code's
order. Left out: prompts, contexts, citations, languages, logs.

`AnalysisContract` is what the callers of the graph rely on: it closes once with
a verdict or aborts, a compliance verdict comes after 1 to MaxRetries + 1
attempts, and the provisional RE-ROUTE is never a verdict. `ContractSpec`
checks, and `ImplementsContract` proves, that Pipeline implements it.

### Insights

One document type; recommendations, proposals (texts) and clauses are sets, and several
texts may name one clause. Approving compares names in lower case (`routes.py:1781`),
undoing also without their surrounding blanks (line 448), and nothing strips a name
before: `Stripped` maps a clause to its name without blanks, two clauses with one such
name are namesakes, and `RemoveClause` takes a clause out with its namesakes. The
history variable `swept` collects the recommendations whose clause undoing a namesake
has taken away since they were applied (or undoing one for the very clause, whose own
line a namesake had taken before); they may stay "approved" without being in force, and
`ApprovedInForce` exempts just them. A request is in flight in `officer[o]`: `read`
after `get_recommendation` and its checks, `patched` after the file was changed,
`marked` after the status was set. The row read is not read again. A review in flight
has found its proposal `not_blacklisted`, then `not_pending`. Both queries may raise and
then answer "no" (`QueriesMayFail`). `RequestFails`, `ReviewStops` and `Crash` cut an
activity short wherever it stands.

No transaction spans the stores, so nothing relates them at all times. The
history variable `disturbed` collects the topics on which two activities have
overlapped or a failure has left one half done. On every other topic the stores
agree exactly, and that is what the properties say; the code gives no more.
`NoDuplicateClause` holds without that proviso, for the check and the append
are not separated by an await.

### ReviewAgent

A review has a stage, the document types still to do, the items still to do of
the LLM's answer, and what the answers have proposed so far. `LoadCorrections`
counts the log's lines by document type in the order of their first appearance
and passes over types with too few. `Unreadable` is the one retry for an answer
that is no JSON, `Malformed` an answer that is JSON of another shape, `Reply` one
with a list. Each item is passed over, raises (`Uncounted`), or goes through the
two queries to its insert; an `odd` one raises after the insert. `Finish` sends
"done"; every other end sends nothing. Insights is instantiated with a review's
two awaits read off the stage (`Review`) and its officers are Insights' own, so
`InsightsSpec` says that all the rest, other document types included, does to
the stores what `Insights` says of a review. A reply is a list with at least
one item; an empty list goes on to the next type as a failed call does (`CallFails`).

### ClauseLibrary

Which clauses an analysis checks for. `file` is `regulatory_db.json`, `api` the
copy of `routes.py` as it is, `agent` that of `compliance_agent.py` without
clauses that do not validate, `custom` the files that `POST /clauses` writes. The
readers are `LoadTenantClauses` (the API) and `QueryRegulatoryDb` (the agent), each
with the code's own order of lookups. `ApproveClause` and `UndoClause` go up to the
await of the new status (`Change`): `WriteAndReload` is the write and the reload
without an await in between, in which the agent's half may fail unnoticed
(`lagging`), and `WriteAndRaise` the write followed by a read that raises, which ends
the request with both copies as they were. Undoing takes a clause out of every list
with its namesakes, as in `Insights`; `swept` are the clauses gone with a namesake.
`WriteFails` leaves a file that does not parse (`torn`), with which the service
does not `Start` again. A run reads its list at `Judge` and caches its verdict at
`EndRun`; `cache` holds the list instead of the verdict. `fresh` collects the runs
that began after the copies last changed. Concurrent requests about one recommendation
are Insights' subject and left out here.

### Intake and Evidence

`Intake` has an operator for every extractor: which files it refuses (by extension,
magic bytes, size of the unpacked archive, whether the library opens it, OCR missing)
and which parts of a file its text consists of. The skipped elements of an HTML page are
counted as the parser counts them, tag by tag (`After`, `SkipDepth`). `Evidence` takes
an upload (`RefuseUpload`, `AnalyzeUpload`) or a batch item (`AnalyzeItem`), which read
the same files by different rules. `BuildIndex` gets an index of the run's own (FAISS,
built or loaded) or one on the server, with chunks of any lengths; how a text is split
into them is left open. `Search` returns any ranking for each clause, on an index of the
run's own of as many chunks as there are, on the server's of any number, for another run
of the same text may be writing to it. Then it goes through `_build_context`, one call
of `add` a step: the whole document if it fits, otherwise pass 1 over best chunks, cut
to a fair share if they do not fit together (`FairShare`), and two rounds of pass 2.
`prompt` says of each chunk how much of it is there. `Report` is
`_parse_clause_results`: after the LLM has answered it searches again for one chunk
(`FoundAgain`: on an index of the run's own the best one again, on the server's any or
none) and shows its first 300 characters (`Excerpt`), whatever the prompt held of it.
`upto` is the running total of the `sum(...)` over the best chunks.

### ClauseIndex

A run takes an index from memory or from disk (`LoadFromDisk`), from the server
(`LoadFromServer`, which takes any index that exists for complete), or builds one:
`BuildLocally`, or `CreateIndex` and an `AddChunk` per chunk, in a thread, while other
runs go on. `FallBack` is the except clause that builds with FAISS instead.
`StartSave` and `FinishSave` write the two files on the event loop, and nothing but
threads and a crash comes in between (`LoopIsFree`). `server` counts how many copies
of a chunk an index holds, for two builds of one text index it twice. `Crash` may
also switch VECTOR_STORE. `disturbed` collects the texts whose index on the server
was built twice, searched half-built, or left half-built; the code gives nothing
there, and the property exempts exactly these.

### AnalysisStore

A handler in flight has a stage, the next call it makes. A run takes one step
(Pipeline says what happens inside) and yields a verdict or raises; `Save`,
`YieldDone`, `InsertDocCache`, `InsertFailure`, `LookForText` and `BackFill` are
the calls. `_save_to_history` and `_insert_failure` swallow their exceptions,
the other writes do not. `Stops` is a client leaving a stream or a write
raising; `Crash` ends all of them. A document is its hash, and the hash does not
fix its text: that depends on the file's extension, on whether OCR works, and, for
batch items that cannot be read, on a decoding of the raw bytes cut at 10 000
characters; stored copies are cut at 200 000 (`Save`) or 50 000 (`BackFill`). A
text is therefore `full`, by which a document is `Unclean` or not, or any `other`,
which the guardrail may block or let pass either way. Documents of which there may
be another text are `Ambiguous`. `unsaved`, `shown` and `misread` are history
variables; the last collects the documents whose cached verdict is that of a new run
on another text.

### BatchJob

The items of a ZIP are tasks started together; those of a re-analysis are
worked through in turn; `item[j][i]` is a task's stage, `finished[j]` the
completed tasks `asyncio.as_completed` has not yet handed out. `permits` is the
semaphore, shared by all jobs. An entry's `name` is the item it claims to be
about: for an exception in a ZIP that is the position among completions.
`JobContract` is what a client polling `/jobs/{id}` sees.

### BatchPage

The tab is opened and left (`Open`, `Leave`: App.tsx mounts it per tab), and each
visit is a component with an interval of its own (`timer`); only the last visit is in
view, and what the others set is lost but for localStorage (`saved`) and their
intervals. A request for a job (`HandleSubmit`, `HandleReanalyzeSelected`, `Accept`,
`Created`) and a poll (`Tick`, `Answer`, `PollFails`) belong to the visit that sent
them. A poll's answer is the row as it was at some moment since the poll was sent,
so that answers overtake each other. The server is an instance of `JobContract`,
which `BatchJob` is proved to implement. The run checks the page over the contract.
`BatchSystem` puts the page in front of `BatchJob` itself: a request that arrives
creates the job (`Creates`), the server gets on with it or crashes (`Serves`), and the
tab does the rest (`Browses`). Both see the same `row`, from `JobRow`. `BatchSystem` has
no run, for the product of the two state spaces is large; that its two parts compose
is proved.
As results only grow, what the page has seen of a job is a number. `crossed` marks
histories in which an answer came to a component that had moved on; see the last of
the disagreements below.

### FeedbackLog

A submission has a row in `feedback` from `Insert` on; `LookUp` is the await of
the analysis record, after which the response is sent; `AppendCorrection` is the
background task. A removal deletes the rows in the handler and rewrites the file
in its task, which is three steps, for these tasks are plain functions and run in
threads: read and filter, open (which empties the file), write. An entry of the
log is the feedback it is about; order, repetition and unreadable lines are left
out. `disturbed` collects the traces on which a submission and a removal have
overlapped, whose lines were appended while a rewrite was under way, or which a
failure has left half done; two rewrites at once disturb all traces.

## Runs

| Run | Instance | Shows |
|---|---|---|
| `pipeline` | 2 document types, 2 clauses of which one HIGH, a default and a US profile (which lacks one type, as the shipped file does), 4 tenants, MaxRetries = 2 | five invariants, refinement of `AnalysisContract`, termination |
| `library` | 4 tenants of which 2 have a list, 3 clauses of which one does not validate and is a namesake of another, 2 runs on 2 documents, 3 changes | two invariants, and that refreshed verdicts are current |
| `insights` | 2 recommendations, 4 proposals (two spellings of a missing rule, one with a blank at its end, one comprehension failure), 2 officers, 1 review, 2 profiles, MaxLines = 2 | five invariants, the status lifecycle |
| `review` | 2 reviews, 1 officer, 2 document types, 3 logs, answers with sound, odd, unknown and uncounted items, 4 recommendation ids | refinement of `Insights`; streams end, "done" has lost nothing |
| `evidence` | files of up to 4 parts in every format, HTML pages of up to 5, both sorts of index with up to 3 chunks of length 2 or 4, 3 clauses, TopK = 3, MaxK = 2, budget 9, separator 1, least piece 2, excerpt 3 | three invariants |
| `index` | 3 runs, 2 of one text of 2 chunks, both stores, failures and restarts | exact searches; runs end |
| `store` | a clean document, and a blocked one of which there may be another text, 3 runs, 2 in flight | five invariants, permanence of an officer's decision |
| `store_privacy` | 1 run | violated: a blocked text is stored |
| `batch` | a ZIP of 3 and a re-analysis of 2 sharing 2 permits | four invariants, refinement of `JobContract`, completion |
| `page` | 2 jobs of 2 and 1 documents, 2 visits, 2 polls under way | the job remembered, and its end shown |
| `feedback` | 3 submissions on 2 analyses, 2 officers, failures | the log agrees with the table, nothing ignored comes back |
| `feedback_ignored` | 2 submissions, no failures | violated: the line of ignored feedback stays in the log |

Each violated property quotes a document or comment of the repository that the
code does not keep; `PROJECT.json` has the quotes under `findings`.

**Why the bounds are enough.** MaxRetries = 2 is the code's value. Two clauses
let one be missing and one be there, and differ in risk; the four tenants hit
each branch of the profile lookup. Two officers and a review are the least that
overlap in every way two activities can, on the same recommendation or on two
that share a topic. MaxLines bounds how often an approval fails after its
append, so that a few-shot example can be in the file twice. Two recommendations
are enough to undo one and look at its namesake. Three runs let a
row be written, re-analysed and overtaken by a second run of the same document.
Two reviews and an officer are
the least that meet at every await, and the first reply makes two recommendations
each; with four ids the officer's and both reviews' have room. Three best chunks fit
a budget of 9 with least pieces of 2 and separators of 1, and no more would, so
that the cap, the fillers and the refusals of `add` all happen; of two best chunks
excerpts of 3 fit, of three they do not, as 20 do not in the code; five parts of a page
nest and unbalance its elements in each order. Two runs on one text and one on
another are the least that can disturb and mix up indexes. A default, an upper-case,
a missing and an exact tenant take each branch of both lookups; three changes
approve two clauses and undo one. Two visits and
two polls let each answer come to a later visit, a later job or after a later
answer; one sort of result is enough, for the page only counts them.
Five items over two permits make jobs wait for each other, and three tasks
finish in every order. Three submissions let one be kept, one removed and one
appended while the file is rewritten; two officers let two rewrites meet.
The bounds that are no constants of the code are `MaxLines` (Insights),
`MaxChanges` (ClauseLibrary), `MaxChunks` (Evidence), `MaxVisits` and `MaxPolls` (BatchPage), and the sizes
of the sets of ids. `MCInsights`, `MCAnalysisStore` and `MCFeedbackLog` use symmetry
and check safety only. Deadlock is not checked where the system may stop: when the
recommendation, trace or submission ids there are have been used, the jobs or
runs are done, or the visits used up.

**Fairness.** `Pipeline`: weak fairness of the run's own steps. A node returns
or raises, because LLM clients are created with a timeout (`llm_factory.py`), and
LangGraph schedules the next; the officer is not fair. The claim rests on the
client honouring the timeout, which this repository cannot show. `BatchJob`:
weak fairness of each job's worker and of each item. `asyncio.Semaphore` is
first come, first served and an item waits once, but weak fairness is enough
here: there are finitely many items, and so the permits are eventually free for
good. `UpdateFails` and `Crash` are not fair, and `JobsComplete` exempts jobs
whose worker they killed. `ReviewAgent`: weak fairness
of each review's own steps, on the same ground as `Pipeline`; a client that leaves,
an officer and a crash are not fair. `ClauseIndex`: weak fairness of each run's own
steps, for the thread is awaited and calls to the server time out. `BatchPage`: weak
fairness of every visit's interval and of the end of every poll, with an answer or
with an error; the user and the server's progress are not fair, and
`CompletedIsShown` begins where the job is completed. `Insights`, `AnalysisStore`,
`FeedbackLog`, `ClauseLibrary` and `Evidence` have no liveness: nothing there is
retried or resumed, or it is a loop over a list.

## Proofs

Each proof module proves that an inductive `IInv` holds (initial states, one
lemma or step per action), then derives each property from it. The
assumptions are those named in the modules, about constants only.

`PipelineProofs` (for every set of types, clauses, tenants, profiles and every
MaxRetries): the invariants say what holds at the end of a run, and the steps
that lead there know nothing of it; so `IInv` says node by node what is known:
`attempts = retry_count` before compliance, one more after it; on what grounds
the decision so far was taken (`Grounds`); that `increment_retry` is only
reached with retries left and `escalate` without. It yields `TypeOK`,
`ApprovedIsEarned`, `RiskGoesToHuman`, `OneClauseListPerReport`,
`UnfaithfulNeverDecides`, and step by step the refinement of `AnalysisContract`.
`StepsRunOut` is the part of termination that needs no fairness: a number between 0
and 4 MaxRetries + 6 (`Remaining`) falls with every step of a run, and the officer's
changes leave it alone.

`InsightsProofs` (any number of recommendations, clauses, profiles, officers and
reviews): the properties speak of settled topics, but a request that is half way is what
settles them next. `IInv` therefore makes the half-done request part of the state:
`Holds(r)` is "approved, or patched by an approval that has not set the status yet, and
not yet taken away by a withdrawal", and `Bars(r)` is the like for the blacklist. On an
undisturbed topic each activity is `Alone`, finds what it has read still true
(`InOrder`), the files are exactly what `Holds` says, but for what is `swept`
(`InForce`), and the blacklist what `Bars` says (`Barred`). It yields `TypeOK`,
`NoDuplicateClause`, `ApprovedInForce`, `NothingElseInForce`,
`BlacklistMatchesRejections` and `Lifecycle`.

The module's second half is about `ReviewAgent`, of which it has an instance (`Agent`)
over the same stores. Its own invariant, `AgentInv`, says that a review in a list has
items left and awaits a query about a well-formed one only (`StreamsOK`), and that every
proposal it has dealt with, which are those its replies gave less those still to come
(`Dealt`, `Due`), is a recommendation, its own or the rejected or pending one it met.
`AgentImplementsInsights`: each step of a whole run is, for the stores and the two
awaits, a step of `Insights` or none. `NothingIsLost`: a review whose stream says "done"
has lost no sound proposal, the safety half of `ReviewsFinish`. That the streams end
rests, besides fairness, on `ReviewsOnlyGoOn`: each step of a review leaves it with less
to do, counted in document types, then the LLM's second chance, then items, then
queries, and nobody else's step gives it more; and on `ReviewsAreReady`: a review in a
list has an item, and awaits a query only about one the code has a case for. All four
assume of `Replies` what `RepliesAssumption` of `ReviewAgent` says, that they are
non-empty lists of items.

`AnalysisStoreProofs` (any documents, verdicts and traces, any number of handlers
in flight): the properties relate tables that a run writes one after the other,
so `IInv` says what the run knows in between. `FlightOk`: until its verdict is
saved nothing is stored under its trace_id (`Fresh`); from then on the verdict is
on record or its insert has failed (`Recorded`); what will be cached, unless the run
is on another text, is BLOCKED if the document is to be blocked.
`OwnTraces`: no two runs share a trace_id, so that each step disturbs one run
only. `Tables`: the four properties, and that unused trace_ids are fresh. The steps fall
into those that touch no table (`QuietStep`), that begin a run (`StartStep`), that
change a row (`RowStep`) and that write under the run's own trace_id. It yields
`TypeOK`, `CacheHasTrail`, `ShownIsRecorded`, `FailureHasNoVerdict`,
`CacheKeepsBlocked` and `OverrideIsPermanent`.

`BatchJobProofs` (any jobs of any size, any number of permits): a step changes one
job and perhaps the semaphore, so `IInv` is `JobInv`, a formula about each job,
and `PermitInv`, one about the semaphore and all items. `JobInv` says how far the
stored row lags behind the worker's own list (`RowOf`), which items have not had
their turn (`Turns`), and that a finished item is collected once (`Accounts`). It
yields `TypeOK`, `PermitsBalance`, `OkResultsAreTrue` and the refinement of
`JobContract`. `CompletedIsComplete` counts items by outcome, so on top of `IInv` there
is a `Ledger`: while a job's worker lives, the items that have finished are as many
as the results and the completions not yet collected, and so are those that ended
well (`Counted`); a completed row has them all (`Final`).

The safety half of `JobsComplete` is two theorems. `NeverStuck`: whoever lives can go
on, or waits for an item that can, or for a permit whose holder can. It needs, besides
`IInv` and `Ledger`, that the items whose turn has come have begun and that a living
worker has lost none (`InTurn`). `JobsOnlyGoOn`: no step, a crash included, takes an
item or a worker back in the order of its stages, and each takes one on; as these are
finitely many, only fairness is left to say that the jobs come to an end.

The module's second half is about `BatchPage`. `UnfinishedStaysSaved` is
`UnfinishedIsSaved` for any jobs, visits and polls; its invariant, `Following`, adds
that only the component in view polls, that it polls the job in localStorage, and
that a job shown as completed is no longer there.

`TabInv` adds what the tab knows of its server: rows keep what the contract says of
them (`ServedRows`) and only grow (`RowsGrow`), what the tab holds of a row the row
bears out (`Known`), and an open tab that no poll has failed polls what it remembers
(`Polled`). From it follow the two theorems that `CompletedIsShown` rests on besides
fairness. `CompletedIsPolled`: a completed job that is remembered is polled by the tab
in view, by nothing else, and every poll has an answer it can get.
`CompletedComesNearer`: meanwhile each place for a poll only goes from an older poll to
free and from free to a poll that brings the end, and the wait ends by showing it, by
leaving, or by a failed poll or a crossed answer.

The last part is about `BatchSystem` and uses the invariants of both components.
`SystemImplementsPage`: each step of the system is one of `BatchPage`. `ShownComplete`: a
job the browser shows as completed has every item finished, and the results counted by
then hold as many ok ones as there are items that ended well. This relates a count in
the browser to the items on the server: by `Known` and `ServedRows` a row whose count
is full is completed, so that `Final` applies. `BatchPage` assumes nothing of what
results are made of; the two theorems say of its constant that `Results = Entries`.

`EvidenceProofs` (any number of clauses, any chunk lengths, budget, separator, least
piece and excerpt): the argument is a count. In pass 1 without a cap, `used` is at most
`upto`, whose last value fits the budget; with a cap it is at most a capped piece and a
separator per chunk in the prompt, of which there are fewer than best chunks while one
is missing, and all of them fit if `RoomForAll` (`Pass1`). So pass 1 turns no best chunk
down, and nothing leaves the prompt afterwards (`Pass2`). Once a best chunk is in the
prompt it is there whole or cut to the fair share (`Pieces`), and as many excerpts as
fit the budget are at most that long (`ShareIsExcerpt`). It yields `TypeOK` and
`EvidenceIsInPrompt`. `HtmlTextVisible` compares the parser's counter with a definition
that has no counter, `Hidden`: somewhere before, more was opened than closed. The
counter is a recursive function over the page, so this is an induction. The library's
induction theorems take an operator, which the provers cannot instantiate;
`LeastNumber`, that a non-empty set of numbers has a least one, takes a set, and is
derived from the well-foundedness of `<` on Nat. It gives the equations of the counter
(`DepthExists`, `DepthEquation`) and, applied to the parts at which the counter differs
from the largest surplus, that there are none (`DepthIsSurplus`).

`ClauseIndexProofs` (any runs, texts and chunks): `IInv` says what is on the server of an
undisturbed text: nothing before the build, what its only builder has added so
far, each chunk once afterwards (`Undisturbed`); that chunks never stray
(`OwnChunks`); and that an index in hand was complete when it was taken (`InHand`).
It yields `TypeOK` and `SearchIsExact`. `RunsOnlyGoOn` is what `RunsEnd` needs besides
fairness: each step of a run takes it to a later stage or adds one chunk more, and no
step of another run, the server or a crash sends it back. `RunsNeverStuck` is the rest
of it: whatever the server answers, a run that has not ended has a step to take, or
waits for the one run whose save holds the event loop. That needs three facts
more (`Orderly`): runs add to the server only while VECTOR_STORE names it, a run past
its build has an index in hand, and one run saves at a time.

`ClauseLibraryProofs` (any tenants, clauses, runs, documents and number of changes):
while the process is up, the agent's copy is the valid part of the API's unless a
reload failed (`Copies`); an approval that was not interrupted, nor swept away with a
namesake, is in the file and in the API's copy (`Applied`), which part when a reload
raises; a fresh run has judged by what the agent still
has (`Judgements`). It yields `TypeOK`, `ShownIsUsed`, `ApprovedIsApplied` and
`RefreshedIsCurrent`.

`FeedbackLogProofs` (any number of submissions, analyses and officers): what the
log says of a trace may be in the hands of a rewrite on behalf of another. For
feedback on an undisturbed trace, `IInv` says what each stage of a rewrite holds of
it: before the file is emptied, the lines to be written are those of the log
without the trace's own; from then on they are exactly what the table says should
be there, and the log holds none of them (`RemovalOk`, `SubmissionOk`). Two rewrites at
once leave nothing undisturbed (`OneRewrite`). It yields `TypeOK`,
`LogMatchesFeedback` and `ForgottenStaysForgotten`.

Only model-checked: liveness (`Terminates`, `JobsComplete`, `ReviewsFinish`, `RunsEnd`,
`CompletedIsShown`), for fairness and ENABLED are out of the prover's reach. What these
properties need of the steps themselves is proved: `StepsRunOut`; `NeverStuck` with
`JobsOnlyGoOn`; `ReviewsOnlyGoOn`, `ReviewsAreReady` and `NothingIsLost`; `RunsOnlyGoOn`
and `RunsNeverStuck`; `CompletedIsPolled` and `CompletedComesNearer`. These theorems
speak of guards and of orders on the states; that a step is taken when its guard
holds, and that the orders have no infinite descent, stays with TLC. The violations
are counterexamples, found by TLC. `TypeOK` of `ClauseIndex` and `ClauseLibrary` is proved
and not run. Every invariant, action property and refinement of the runs that pass
is the statement of a theorem (`InsightsSpec`, of the instance `Agent`).

## Disagreements met while modelling

Two are runs (`store_privacy`, `feedback_ignored`), with quotes under `findings` in
`PROJECT.json`. The others follow from reading the models' definitions against the
text quoted; the models do what the code does.

* `compliance_agent.py:23` asks for a human when routing was unsure, but a type
  without required clauses is APPROVED on any confidence (line 223).
* `README.md:81` calls approvals "fully reversible", but undoing removes the clause
  from every profile, those included that were shipped with it (`routes.py:444`), and
  with it every clause whose name differs in surrounding blanks (line 448), which
  approving takes for another clause (line 1781): approve "X" and "X ", undo one, and
  the other is still "approved" and no longer in force.
* `README.md:71`: identical uploads are served from the cache. What is identical is the
  bytes (`routes.py:334`), but the text, and so the verdict, also depends on the
  extension, on OCR and on whether the bytes had to be decoded (line 687). A scanned PDF
  may be BLOCKED, then met in a batch with `force_refresh` while OCR fails, let pass as
  decoded bytes, and be served under that verdict. `CacheKeepsBlocked` is the part that
  holds.
* `docs/DEVELOPER_GUIDE.md:908`: an index is named by the hash of the document's bytes;
  it is by that of its text (`compliance_agent.py:235`).
* `docs/DEVELOPER_GUIDE.md:100`: a rejected pair is never suggested again; it may be,
  if the query raises or the review had looked before (`review_agent.py:255`).
* `docs/DEVELOPER_GUIDE.md:646`: posted clauses are a tenant's required clauses; they
  are shown (`routes.py:507`) and never checked for (`compliance_agent.py:194`).
* `docs/DEVELOPER_GUIDE.md:678`: a review stream ends with "done"; an item the agent
  does not expect ends it without (`review_agent.py:251`).
* `routes.py:1015`: an officer's decision is "used by the HTML report page"; that shows
  the decision of the cached payload if there is one (line 1249).
* `docs/USER_GUIDE.md:277`: a result bears the name of its document; in a ZIP an error bears
  the name of the file at its position among completions (`routes.py:726`).
* `compliance_agent.py:33-34` and `backend/tests/unit/test_context_builder.py:9-11`: every clause's
  best chunk gets a slot; with the least piece of 200, from thirty different best
  chunks on some get none (line 64). `EvidenceIsInPrompt` is the part that holds.
* `compliance_agent.py:325`: evidence is verified so that a citation is proved real.
  It is, against the document, but not against the prompt: with twenty to
  twenty-nine best chunks the last of the 300 characters shown may have been cut off
  (line 64), and on a server's index that another run is writing the second search
  (line 339) may show a chunk the LLM never had.
* `README.md:263` sets the least evidence by REVIEW_MIN_EVIDENCE; `routes.py:44` reads
  it and nothing uses it.
* `docs/DEVELOPER_GUIDE.md:436`: an empty file is answered with 400; an empty text or
  HTML file is analysed.
* `docs/USER_GUIDE.md:509` and 558: every page of a TIFF is read by OCR; the first is
  (`file_extractor.py:253`).
* `BatchUpload.tsx:51`: a job in progress is resumed from localStorage. A late
  completed answer of an earlier job takes the new one out of it and stops its
  interval; and a job whose worker died stays "running", is polled for ever, and
  leaves no way to drop another ZIP.

## Not modelled

* The client's other pages: the event stream of an upload (`App.tsx`) is planned;
  the rest are forms and lists over single requests.
* Cache entries written before the `sanitized` field existed
  (`routes.py:642-653`), webhooks, `/override` (a note in memory that nothing in
  the backend waits for).
* How HTML is cut into tags and data: the parser library's. `_from_html` never calls
  `close()`, so that data still held back at the end of a page, as `&xyz`, is lost.
* Which rows of a job are ticked, and why a row may be; the bodies of e-mails
  (one substitution without state); wording, prompts and citations.
* LLMs: an external service, nondeterministic here.
* Authentication, rate limits, language detection, metrics,
  PDF layout: no state shared between requests, or no effect on the rest.
* `data/anonymizer.py` and `agents/llm_utils.py`: nothing calls them.
* Deployment scripts, sample documents.

## Plan

Done, in this order: `Pipeline`, `Insights`, `AnalysisStore`, `BatchJob`, `FeedbackLog`;
`Evidence` with `Intake`, `ClauseIndex`, `ClauseLibrary`, `ReviewAgent`, `BatchPage`; proofs
about all of them, of three refinements and a composition, and of what each liveness
property needs of the steps. What is left:

1. `AnalysisClient`: the event stream of `App.tsx` over the uploads of
   `AnalysisStore`: errors that are not shown, an override the server refused.
2. `/override` and the notes of the report page.
