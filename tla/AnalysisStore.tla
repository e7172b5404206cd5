----------------------------- MODULE AnalysisStore -----------------------------
(***************************************************************************)
(* Where the verdicts go: uploads, batch items and re-analyses in flight   *)
(* at once, each of which runs the pipeline and then writes to             *)
(*                                                                         *)
(*   analyses          one row per trace_id, with the document's text      *)
(*   failed_analyses   the traces of runs that raised                      *)
(*   doc_cache         the last verdict per document hash                  *)
(*                                                                         *)
(* (backend/api/routes.py, backend/data/history_store.py).  A history_store*)
(* call is a step of its own: it commits by itself, it may raise, and the  *)
(* client may hang up or the process die before the next one.  The         *)
(* pipeline is one step here, Pipeline says what happens inside.           *)
(*                                                                         *)
(* A document is its hash.  Its text is "full", which is what its owner     *)
(* reads in it and by which the guardrail blocks it or lets it pass, or    *)
(* some "other" text, by which the guardrail may do either: what another   *)
(* extension, an OCR that fails or the decoded bytes make of the same      *)
(* file, or a copy that was cut.                                           *)
(***************************************************************************)
EXTENDS Naturals

CONSTANTS
    Files,      \* documents, by hash
    Unclean,    \* those the guardrail blocks for their full text
    Ambiguous,  \* those of which another text may be read or kept
    Traces,     \* the trace ids there are to hand out
    Handlers,   \* requests and batch items that may be in flight at once
    Judged,     \* the verdicts of the pipeline past the guardrail
    Overrides   \* the decisions an officer may set

None == "none"
Absent == [absent |-> TRUE]     \* a row or a payload that does not exist
Blocked == "BLOCKED"
UnknownVerdict == "UNKNOWN"

ASSUME FilesAssumption == Unclean \subseteq Files /\ Ambiguous \subseteq Files
ASSUME VerdictsAssumption == {Blocked, UnknownVerdict} \cap (Judged \cup Overrides) = {}

Verdicts == Judged \cup {Blocked, UnknownVerdict}

VARIABLES
    analyses,   \* the row of each trace, or Absent
    failed,     \* the traces in failed_analyses
    doc_cache,  \* the payload cached for each file, or Absent
    handler,    \* what is in flight
    used,       \* history: the trace ids handed out
    misread,    \* history: files last cached for a new run on another text
    unsaved,    \* history: the traces whose insert into analyses raised
    shown       \* history: the traces whose verdict a client has been shown

tables == <<analyses, failed, doc_cache>>
vars == <<analyses, failed, doc_cache, handler, used, misread, unsaved, shown>>

\* "upload" is /analyze, "email" /ingest/email and "reanalyze"
\* /history/{id}/reanalyze, all of them streams a client may leave; the others
\* are items of a batch job.
Kinds == {"upload", "email", "reanalyze", "batch", "batch_reanalyze"}
Streams == {"upload", "email", "reanalyze"}
Again == {"reanalyze", "batch_reanalyze"}

Texts == {"full", "other"}
TextsOf(f) == IF f \in Ambiguous THEN Texts ELSE {"full"}

\* The stage is the call to be made next.
Stages == {"run", "insert_failure", "save", "done", "insert_cache",
           "look_for_text", "backfill"}
Idle == [at |-> "idle"]
Flights == [at : Stages, kind : Kinds, file : Files, trace : Traces,
            text : Texts, verdict : Verdicts \cup {None}]

Rows == [file : Files, decision : Verdicts \cup Overrides,
         by : {"pipeline", "officer"}, raw_text : Texts \cup {None}]
Payloads == [trace : Traces, verdict : Verdicts]

TypeOK ==
    /\ analyses \in [Traces -> Rows \cup {Absent}]
    /\ failed \subseteq used
    /\ doc_cache \in [Files -> Payloads \cup {Absent}]
    /\ handler \in [Handlers -> Flights \cup {Idle}]
    /\ used \subseteq Traces
    /\ misread \subseteq Files
    /\ unsaved \subseteq used
    /\ shown \subseteq used

Init ==
    /\ analyses = [t \in Traces |-> Absent]
    /\ failed = {}
    /\ doc_cache = [f \in Files |-> Absent]
    /\ handler = [h \in Handlers |-> Idle]
    /\ used = {}
    /\ misread = {}
    /\ unsaved = {}
    /\ shown = {}

-----------------------------------------------------------------------------
(* Moving a handler on.                                                     *)

At(h, stage) == handler[h].at = stage
Finish(h) == handler' = [handler EXCEPT ![h] = Idle]
GoTo(h, stage) == handler' = [handler EXCEPT ![h].at = stage]

\* A run begins under a fresh trace_id.
StartRun(h, kind, f, t, text) ==
    /\ t \notin used
    /\ used' = used \cup {t}
    /\ handler' = [handler EXCEPT ![h] =
          [at |-> "run", kind |-> kind, file |-> f, trace |-> t,
           text |-> text, verdict |-> None]]

\* A run on what was just read of the file.
ReadAndRun(h, kind, f) ==
    \E t \in Traces, text \in TextsOf(f) : StartRun(h, kind, f, t, text)

\* _stream_graph yields "done" after the save; only an upload has a
\* document hash to cache under.
AfterSave(kind) ==
    IF kind \in Streams THEN "done"
    ELSE IF kind = "batch" THEN "insert_cache" ELSE "idle"

\* Faulty: every stream refreshes the cache.
AfterDoneCacheAlways(kind) == "insert_cache"

AfterDone(kind) == IF kind = "upload" THEN "insert_cache" ELSE "idle"

Advance(h, stage) == IF stage = "idle" THEN Finish(h) ELSE GoTo(h, stage)

-----------------------------------------------------------------------------
(* Requests.                                                                *)

\* force_refresh deletes the cached verdict before the run.
ForceRefresh(h, kind, f) ==
    /\ At(h, "idle")
    /\ doc_cache' = [doc_cache EXCEPT ![f] = Absent]
    /\ ReadAndRun(h, kind, f)
    /\ UNCHANGED <<analyses, failed, misread, unsaved, shown>>

\* get_doc_cache finds nothing; it also answers None when the query raises.
CacheMiss(h, kind, f) ==
    /\ At(h, "idle")
    /\ ReadAndRun(h, kind, f)
    /\ UNCHANGED <<tables, misread, unsaved, shown>>

\* ingest_email does not look into the cache, and has no hash to cache under.
IngestEmail(h, f) ==
    /\ At(h, "idle")
    /\ \E t \in Traces : StartRun(h, "email", f, t, "full")
    /\ UNCHANGED <<tables, misread, unsaved, shown>>

\* A stream answers a hit from the cache and is done: nothing changes.  A
\* batch item goes on to look for the text of the run the payload is from.
CacheHit(h, f) ==
    /\ At(h, "idle")
    /\ doc_cache[f] # Absent
    /\ handler' = [handler EXCEPT ![h] =
          [at |-> "look_for_text", kind |-> "batch", file |-> f,
           trace |-> doc_cache[f].trace, text |-> "full",
           verdict |-> None]]
    /\ UNCHANGED <<tables, used, misread, unsaved, shown>>

\* get_by_trace_id answers None when there is no row, and when it raises.
LookForText(h) ==
    /\ At(h, "look_for_text")
    /\ LET row == analyses[handler[h].trace]
       IN  \/ /\ row # Absent
              /\ row.raw_text # None
              /\ Finish(h)
           \/ GoTo(h, "backfill")
    /\ UNCHANGED <<tables, used, misread, unsaved, shown>>

\* update_raw_text, with what is read of the file at hand, cut if it is long:
\* no row, no effect.
BackFill(h) ==
    /\ At(h, "backfill")
    /\ LET t == handler[h].trace
       IN  \/ /\ analyses[t] = Absent
              /\ UNCHANGED analyses
           \/ /\ analyses[t] # Absent
              /\ \E text \in TextsOf(handler[h].file) :
                    analyses' = [analyses EXCEPT ![t].raw_text = text]
    /\ Finish(h)
    /\ UNCHANGED <<failed, doc_cache, used, misread, unsaved, shown>>

\* Faulty: the new run takes over the trace_id, and thereby the row.
ReanalyzeInPlace(h, kind, t) ==
    /\ At(h, "idle")
    /\ analyses[t] # Absent
    /\ analyses[t].raw_text # None
    /\ handler' = [handler EXCEPT ![h] =
          [at |-> "run", kind |-> kind, file |-> analyses[t].file, trace |-> t,
           text |-> analyses[t].raw_text, verdict |-> None]]
    /\ UNCHANGED <<tables, used, misread, unsaved, shown>>

\* A re-analysis of the text stored for t.
Reanalyze(h, kind, t) ==
    /\ At(h, "idle")
    /\ analyses[t] # Absent
    /\ analyses[t].raw_text # None
    /\ \E new \in Traces :
          StartRun(h, kind, analyses[t].file, new, analyses[t].raw_text)
    /\ UNCHANGED <<tables, misread, unsaved, shown>>

-----------------------------------------------------------------------------
(* A run and what becomes of its verdict.                                   *)

\* What the pipeline may say of a text: another one than the full may lack
\* what a document is blocked for, or have what a clean one is blocked for.
PipelineVerdicts(f, text) ==
    IF text = "other" THEN Judged \cup {Blocked}
    ELSE IF f \in Unclean THEN {Blocked} ELSE Judged

\* Faulty: a stream is answered before its verdict is saved, then cached.
RunEndsUnsaved(h) ==
    /\ At(h, "run")
    /\ \E v \in PipelineVerdicts(handler[h].file, handler[h].text) :
          handler' = [handler EXCEPT
             ![h].at = IF handler[h].kind = "upload" THEN "done" ELSE "save",
             ![h].verdict = v]
    /\ UNCHANGED <<tables, used, misread, unsaved, shown>>

RunEnds(h) ==
    /\ At(h, "run")
    /\ \E v \in PipelineVerdicts(handler[h].file, handler[h].text) :
          handler' = [handler EXCEPT ![h] = [@ EXCEPT !.at = "save", !.verdict = v]]
    /\ UNCHANGED <<tables, used, misread, unsaved, shown>>

\* The graph raises, which it does only past the guardrail: a stream records
\* the failure and ends, a batch item carries on with the verdict UNKNOWN.
RunRaises(h) ==
    /\ At(h, "run")
    /\ Judged \cap PipelineVerdicts(handler[h].file, handler[h].text) # {}
    /\ \/ /\ handler[h].kind \in Streams
          /\ GoTo(h, "insert_failure")
       \/ /\ handler[h].kind \notin Streams
          /\ handler' = [handler EXCEPT ![h] =
                [@ EXCEPT !.at = "save", !.verdict = UnknownVerdict]]
    /\ UNCHANGED <<tables, used, misread, unsaved, shown>>

\* Faulty: the handler of the exception does not return.
InsertFailureFallsThrough(h) ==
    /\ At(h, "insert_failure")
    /\ failed' = failed \cup {handler[h].trace}
    /\ GoTo(h, "save")
    /\ UNCHANGED <<analyses, doc_cache, used, misread, unsaved, shown>>

\* _insert_failure, which swallows its own exceptions; the stream then ends.
InsertFailure(h) ==
    /\ At(h, "insert_failure")
    /\ \/ failed' = failed \cup {handler[h].trace}
       \/ UNCHANGED failed
    /\ Finish(h)
    /\ UNCHANGED <<analyses, doc_cache, used, misread, unsaved, shown>>

\* The text of the run, or as much of it as is kept.
Kept(h) ==
    {handler[h].text} \cup
       IF handler[h].file \in Ambiguous THEN {"other"} ELSE {}

\* _save_to_history: no text for a blocked document, elsewhere that of the run,
\* cut if it is long, and no exception.
Save(h) ==
    /\ At(h, "save")
    /\ LET t == handler[h].trace
           v == handler[h].verdict
       IN  \/ /\ \E text \in IF v = Blocked THEN {None} ELSE Kept(h) :
                    analyses' = [analyses EXCEPT ![t] =
                       [file |-> handler[h].file, decision |-> v,
                        by |-> "pipeline", raw_text |-> text]]
              /\ UNCHANGED unsaved
           \/ /\ unsaved' = unsaved \cup {t}
              /\ UNCHANGED analyses
    /\ Advance(h, AfterSave(handler[h].kind))
    /\ UNCHANGED <<failed, doc_cache, used, misread, shown>>

\* The stream's "done" event.
YieldDone(h) ==
    /\ At(h, "done")
    /\ shown' = shown \cup {handler[h].trace}
    /\ Advance(h, AfterDone(handler[h].kind))
    /\ UNCHANGED <<tables, used, misread, unsaved>>

InsertDocCache(h) ==
    /\ At(h, "insert_cache")
    /\ doc_cache' = [doc_cache EXCEPT ![handler[h].file] =
          [trace |-> handler[h].trace, verdict |-> handler[h].verdict]]
    /\ misread' = IF handler[h].kind \notin Again /\ handler[h].text = "other"
                  THEN misread \cup {handler[h].file}
                  ELSE misread \ {handler[h].file}
    /\ Finish(h)
    /\ UNCHANGED <<analyses, failed, used, unsaved, shown>>

\* The client leaves the stream, or insert_doc_cache or update_raw_text raises.
Stops(h) ==
    /\ ~At(h, "idle")
    /\ handler[h].kind \in Streams \/ handler[h].at \in {"insert_cache", "backfill"}
    /\ Finish(h)
    /\ UNCHANGED <<tables, used, misread, unsaved, shown>>

-----------------------------------------------------------------------------

\* set_decision_override updates the row, if there is one, and nothing else.
SetDecision(t, d) ==
    /\ analyses[t] # Absent
    /\ analyses' = [analyses EXCEPT ![t] = [@ EXCEPT !.decision = d, !.by = "officer"]]
    /\ UNCHANGED <<failed, doc_cache, handler, used, misread, unsaved, shown>>

\* The process dies and is started again; the tables are on disk.
Crash ==
    /\ \E h \in Handlers : ~At(h, "idle")
    /\ handler' = [h \in Handlers |-> Idle]
    /\ UNCHANGED <<tables, used, misread, unsaved, shown>>

Request(h) ==
    \/ \E kind \in {"upload", "batch"}, f \in Files :
          ForceRefresh(h, kind, f) \/ CacheMiss(h, kind, f)
    \/ \E f \in Files : IngestEmail(h, f) \/ CacheHit(h, f)
    \/ \E kind \in Again, t \in Traces : Reanalyze(h, kind, t)

Step(h) ==
    \/ LookForText(h) \/ BackFill(h)
    \/ RunEnds(h) \/ RunRaises(h) \/ InsertFailure(h)
    \/ Save(h) \/ YieldDone(h) \/ InsertDocCache(h)
    \/ Stops(h)

Next ==
    \/ \E h \in Handlers : Request(h) \/ Step(h)
    \/ \E t \in Traces, d \in Overrides : SetDecision(t, d)
    \/ Crash

Spec == Init /\ [][Next]_vars

-----------------------------------------------------------------------------
(* Properties.                                                              *)

\* Every cached verdict can be traced: the run it came from has a row, for the
\* same document and with the same verdict unless an officer changed it, or
\* the insert of that row raised.  The cache is written last, two steps and
\* possibly a disconnect after the row (_stream_graph, _process_batch).
CacheHasTrail ==
    \A f \in Files : doc_cache[f] # Absent =>
        LET row == analyses[doc_cache[f].trace]
        IN  \/ row = Absent /\ doc_cache[f].trace \in unsaved
            \/ /\ row # Absent
               /\ row.file = f
               /\ row.by = "pipeline" => row.decision = doc_cache[f].verdict

\* A verdict a client has been shown is on record unless its insert raised: a
\* client that hangs up on "done" cannot make it vanish (_stream_graph).
ShownIsRecorded ==
    \A t \in shown : analyses[t] # Absent \/ t \in unsaved

\* A run that ended in failed_analyses has issued no verdict anywhere
\* (_stream_graph's except clause).
FailureHasNoVerdict ==
    \A t \in failed :
        /\ analyses[t] = Absent
        /\ \A f \in Files : doc_cache[f] = Absent \/ doc_cache[f].trace # t

\* A blocked document is served from the cache as BLOCKED or not at all, even
\* when a re-analysis of a copy that was back-filled or cut gets past the
\* guardrail: only a new run on the document itself replaces what is cached.
\* Such a run may itself have got another text than the full, as the key of
\* the cache says nothing of how the bytes were read: its verdict is exempt.
CacheKeepsBlocked ==
    \A f \in Unclean : doc_cache[f] # Absent =>
        doc_cache[f].verdict = Blocked \/ f \in misread

\* No run, re-analysis or back-fill ever takes back an officer's decision.
OverrideIsPermanent ==
    [][\A t \in Traces : (analyses[t] # Absent /\ analyses[t].by = "officer") =>
          analyses'[t] # Absent /\ analyses'[t].by = "officer"]_vars

\* What routes.py:177 says: the body of a document the guardrail refused is
\* never stored.  A batch hit on a blocked document stores it.
BlockedTextIsNotStored ==
    \A t \in Traces : (analyses[t] # Absent /\ analyses[t].decision = Blocked) =>
        analyses[t].raw_text = None

=============================================================================
