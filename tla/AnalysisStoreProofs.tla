-------------------------- MODULE AnalysisStoreProofs --------------------------
(***************************************************************************)
(* Proofs about AnalysisStore, for any documents, verdicts and traces and  *)
(* any number of handlers in flight.                                       *)
(*                                                                         *)
(* That the three tables agree depends on what the handlers in flight are  *)
(* about to write.  The invariant says what each of them may rely on: a    *)
(* run's trace_id is its own, nothing is stored under it until the run has *)
(* ended, and what is cached last is what was stored first.                *)
(***************************************************************************)
EXTENDS AnalysisStore, TLAPS

\* The stages of a run, as opposed to those of a look into the cache.
OfRun == {"run", "insert_failure", "save", "done", "insert_cache"}

Uncached(t) == \A f \in Files : doc_cache[f] # Absent => doc_cache[f].trace # t

\* Nothing is stored under t.
Fresh(t) == analyses[t] = Absent /\ t \notin failed /\ Uncached(t)

\* The verdict v on f is on record under t, or could not be put there.
Recorded(t, f, v) ==
    \/ analyses[t] = Absent /\ t \in unsaved
    \/ /\ analyses[t] # Absent
       /\ analyses[t].file = f
       /\ analyses[t].by = "pipeline" => analyses[t].decision = v

\* What a handler x in flight may rely on.
FlightOk(x) ==
    x.at \in OfRun =>
        /\ x.trace \in used
        /\ x.at \in {"run", "insert_failure", "save"} => Fresh(x.trace)
        /\ x.at \in {"done", "insert_cache"} =>
              /\ Recorded(x.trace, x.file, x.verdict)
              /\ x.trace \notin failed
        /\ x.at = "insert_cache" => x.kind \in {"upload", "batch"}
        /\ x.at \in {"save", "done", "insert_cache"} =>
              /\ x.verdict \in Verdicts
              /\ (x.text = "full" /\ x.file \in Unclean) => x.verdict = Blocked

FlightsOk == \A h \in Handlers : FlightOk(handler[h])

\* No two runs in flight share a trace_id.
OwnTraces ==
    \A g, h \in Handlers :
        (/\ g # h
         /\ handler[g].at \in OfRun
         /\ handler[h].at \in OfRun) => handler[g].trace # handler[h].trace

\* Nothing is stored under a trace_id that has not been handed out.
UnusedAreFresh == \A t \in Traces \ used : Fresh(t)

Tables ==
    /\ UnusedAreFresh
    /\ CacheHasTrail
    /\ ShownIsRecorded
    /\ FailureHasNoVerdict
    /\ CacheKeepsBlocked

IInv == TypeOK /\ FlightsOk /\ OwnTraces /\ Tables

-----------------------------------------------------------------------------
LEMMA RowIsThere == \A r \in Rows : r # Absent
BY DEF Rows, Absent

LEMMA PayloadIsThere == \A p \in Payloads : p # Absent
BY DEF Payloads, Absent

LEMMA IdleFlight == /\ Idle.at = "idle"
                    /\ Idle.at \notin Stages \cup OfRun
                    /\ FlightOk(Idle)
BY DEF Idle, Stages, OfRun, FlightOk

LEMMA MovedFlight ==
    ASSUME NEW x \in Flights, NEW s \in Stages
    PROVE  /\ [x EXCEPT !.at = s] \in Flights
           /\ [x EXCEPT !.at = s].at = s
           /\ [x EXCEPT !.at = s].kind = x.kind
           /\ [x EXCEPT !.at = s].file = x.file
           /\ [x EXCEPT !.at = s].trace = x.trace
           /\ [x EXCEPT !.at = s].text = x.text
           /\ [x EXCEPT !.at = s].verdict = x.verdict
<1> PICK a \in Stages, k \in Kinds, f \in Files, t \in Traces, c \in Texts,
         v \in Verdicts \cup {None} :
      x = [at |-> a, kind |-> k, file |-> f, trace |-> t, text |-> c, verdict |-> v]
  BY DEF Flights
<1> QED
  BY DEF Flights

\* A flight is what it was as long as its run's trace is.
LEMMA Bystander ==
    ASSUME NEW x, FlightOk(x), used \subseteq used',
           x.at \in OfRun =>
              /\ Fresh(x.trace) => Fresh(x.trace)'
              /\ Recorded(x.trace, x.file, x.verdict) =>
                    Recorded(x.trace, x.file, x.verdict)'
              /\ x.trace \notin failed => x.trace \notin failed'
    PROVE  FlightOk(x)'
BY DEF FlightOk

\* One handler changes, and the trace of its run stays its own.
LEMMA OneHandler ==
    ASSUME TypeOK, OwnTraces, NEW h \in Handlers, NEW y,
           handler' = [handler EXCEPT ![h] = y],
           y.at \in OfRun => \A g \in Handlers :
              (g # h /\ handler[g].at \in OfRun) => handler[g].trace # y.trace
    PROVE  /\ handler'[h] = y
           /\ \A g \in Handlers : g # h => handler'[g] = handler[g]
           /\ OwnTraces'
<1>1. /\ handler'[h] = y
      /\ \A g \in Handlers : g # h => handler'[g] = handler[g]
  BY DEF TypeOK
<1> QED
  BY <1>1 DEF OwnTraces

\* The flights are what they were if h's new one is, and no step has taken
\* from the others' traces what they rely on.
LEMMA AllFlights ==
    ASSUME FlightsOk, used \subseteq used', NEW h \in Handlers, NEW y,
           handler'[h] = y, FlightOk(y)',
           \A g \in Handlers : g # h => handler'[g] = handler[g],
           \A g \in Handlers : \A t \in used :
              (g # h /\ handler[g].at \in OfRun /\ handler[g].trace = t) =>
                  /\ Fresh(t) => Fresh(t)'
                  /\ \A f, v : Recorded(t, f, v) => Recorded(t, f, v)'
                  /\ t \notin failed => t \notin failed'
    PROVE  FlightsOk'
<1> SUFFICES ASSUME NEW g \in Handlers PROVE FlightOk(handler[g])'
  BY DEF FlightsOk
<1>1. CASE g = h
  BY <1>1 DEF FlightOk
<1>2. CASE g # h
  <2> SUFFICES ASSUME NEW x, x = handler[g] PROVE FlightOk(x)'
    BY <1>2 DEF FlightOk
  <2>1. FlightOk(x)
    BY DEF FlightsOk
  <2>2. x.at \in OfRun => x.trace \in used
    BY <2>1 DEF FlightOk
  <2> QED
    BY <1>2, <2>1, <2>2, Bystander
<1> QED
  BY <1>1, <1>2

\* Nobody moves, and what is stored under each trace stays good.
LEMMA TableFlights ==
    ASSUME TypeOK, FlightsOk, used \subseteq used', UNCHANGED <<handler, failed>>,
           \A t \in Traces : /\ Fresh(t) => Fresh(t)'
                             /\ \A f, v : Recorded(t, f, v) => Recorded(t, f, v)'
    PROVE  FlightsOk'
<1> SUFFICES ASSUME NEW h \in Handlers, NEW x, x = handler[h] PROVE FlightOk(x)'
  BY DEF FlightsOk, FlightOk
<1>1. FlightOk(x)
  BY DEF FlightsOk
<1>2. x.at \in OfRun => x.trace \in Traces
  BY <1>1 DEF FlightOk, TypeOK
<1> QED
  BY <1>1, <1>2, Bystander

\* A handler moves on without touching a table.
LEMMA QuietStep ==
    ASSUME IInv, NEW h \in Handlers, NEW y \in Flights \cup {Idle}, FlightOk(y),
           handler' = [handler EXCEPT ![h] = y],
           y.at \in OfRun => handler[h].at \in OfRun /\ y.trace = handler[h].trace,
           UNCHANGED <<tables, used, misread, unsaved, shown>>
    PROVE  IInv'
<1>1. /\ handler'[h] = y
      /\ \A g \in Handlers : g # h => handler'[g] = handler[g]
  <2>1. TypeOK /\ OwnTraces
    BY DEF IInv
  <2>2. y.at \in OfRun => \A g \in Handlers :
           (g # h /\ handler[g].at \in OfRun) => handler[g].trace # y.trace
    BY <2>1 DEF OwnTraces
  <2> QED
    BY <2>1, <2>2, OneHandler, Zenon
<1>2. TypeOK'
  BY DEF IInv, TypeOK, tables
<1>3. Tables'
  BY DEF IInv, Tables, UnusedAreFresh, Fresh, Uncached, CacheHasTrail, ShownIsRecorded,
         FailureHasNoVerdict, CacheKeepsBlocked, tables
<1>4. FlightsOk'
  <2>1. \A t : /\ Fresh(t)' <=> Fresh(t)
               /\ \A f, v : Recorded(t, f, v)' <=> Recorded(t, f, v)
    BY DEF Fresh, Uncached, Recorded, tables
  <2>2. FlightOk(y)'
    BY <2>1 DEF FlightOk, tables
  <2> QED
    BY <1>1, <2>1, <2>2, AllFlights DEF IInv, tables
<1>5. OwnTraces'
  BY <1>1 DEF IInv, OwnTraces
<1> QED
  BY <1>2, <1>3, <1>4, <1>5 DEF IInv

-----------------------------------------------------------------------------
(* Steps that touch no table.                                               *)

LEMMA InFlightOf ==
    ASSUME TypeOK, NEW h \in Handlers, handler[h].at \in Stages
    PROVE  handler[h] \in Flights
BY IdleFlight DEF TypeOK

LEMMA JudgedFlight ==
    ASSUME NEW x \in Flights, NEW v \in Verdicts
    PROVE  /\ [x EXCEPT !.at = "save", !.verdict = v] \in Flights
           /\ [x EXCEPT !.at = "save", !.verdict = v].at = "save"
           /\ [x EXCEPT !.at = "save", !.verdict = v].kind = x.kind
           /\ [x EXCEPT !.at = "save", !.verdict = v].file = x.file
           /\ [x EXCEPT !.at = "save", !.verdict = v].trace = x.trace
           /\ [x EXCEPT !.at = "save", !.verdict = v].text = x.text
           /\ [x EXCEPT !.at = "save", !.verdict = v].verdict = v
<1> PICK a \in Stages, k \in Kinds, f \in Files, t \in Traces, c \in Texts,
         w \in Verdicts \cup {None} :
      x = [at |-> a, kind |-> k, file |-> f, trace |-> t, text |-> c, verdict |-> w]
  BY DEF Flights
<1> QED
  BY DEF Flights, Stages

LEMMA FinishStep ==
    ASSUME IInv, NEW h \in Handlers, Finish(h), UNCHANGED <<tables, used, misread, unsaved, shown>>
    PROVE  IInv'
BY IdleFlight, QuietStep DEF Finish

LEMMA CacheHitStep ==
    ASSUME IInv, NEW h \in Handlers, NEW f \in Files, CacheHit(h, f)
    PROVE  IInv'
<1> DEFINE y == [at |-> "look_for_text", kind |-> "batch", file |-> f,
                 trace |-> doc_cache[f].trace, text |-> "full",
                 verdict |-> None]
<1>1. doc_cache[f] \in Payloads
  BY DEF CacheHit, IInv, TypeOK
<1>2. y \in Flights
  BY <1>1 DEF Flights, Payloads, Stages, Kinds, Texts
<1>3. y.at \notin OfRun /\ FlightOk(y)
  BY DEF OfRun, FlightOk
<1>4. /\ handler' = [handler EXCEPT ![h] = y]
      /\ UNCHANGED <<tables, used, misread, unsaved, shown>>
  BY DEF CacheHit
<1> HIDE DEF y
<1> QED
  BY <1>2, <1>3, <1>4, QuietStep

LEMMA LookForTextStep ==
    ASSUME IInv, NEW h \in Handlers, LookForText(h)
    PROVE  IInv'
<1>0. UNCHANGED <<tables, used, misread, unsaved, shown>>
  BY DEF LookForText
<1>1. CASE Finish(h)
  BY <1>0, <1>1, FinishStep
<1>2. CASE GoTo(h, "backfill")
  <2>1. handler[h] \in Flights
    BY InFlightOf DEF LookForText, At, Stages, IInv
  <2>2. "backfill" \in Stages
    BY DEF Stages
  <2>3. PICK y : y = [handler[h] EXCEPT !.at = "backfill"]
    OBVIOUS
  <2>4. y \in Flights /\ y.at = "backfill"
    BY <2>1, <2>2, <2>3, MovedFlight
  <2>5. y.at \notin OfRun /\ FlightOk(y)
    BY <2>4 DEF OfRun, FlightOk
  <2>6. handler' = [handler EXCEPT ![h] = y]
    BY <1>2, <2>3 DEF GoTo
  <2> QED
    BY <1>0, <2>4, <2>5, <2>6, QuietStep
<1> QED
  BY <1>1, <1>2 DEF LookForText

\* The verdict v on the full text of a document is Blocked if the guardrail
\* blocks it.
LEMMA VerdictStep ==
    ASSUME IInv, NEW h \in Handlers, At(h, "run"), NEW v \in Verdicts,
           (handler[h].text = "full" /\ handler[h].file \in Unclean) => v = Blocked,
           handler' = [handler EXCEPT ![h] = [@ EXCEPT !.at = "save", !.verdict = v]],
           UNCHANGED <<tables, used, misread, unsaved, shown>>
    PROVE  IInv'
<1>1. handler[h] \in Flights
  BY InFlightOf DEF At, Stages, IInv
<1>2. PICK y : y = [handler[h] EXCEPT !.at = "save", !.verdict = v]
  OBVIOUS
<1>3. /\ y \in Flights /\ y.at = "save" /\ y.kind = handler[h].kind
      /\ y.file = handler[h].file /\ y.trace = handler[h].trace
      /\ y.text = handler[h].text /\ y.verdict = v
  BY <1>1, <1>2, JudgedFlight
<1>4. FlightOk(handler[h]) /\ handler[h].at = "run"
  BY DEF IInv, FlightsOk, At
<1>5. FlightOk(y)
  BY <1>3, <1>4 DEF FlightOk, OfRun
<1>6. handler' = [handler EXCEPT ![h] = y]
  BY <1>2
<1> QED
  BY <1>3, <1>4, <1>5, <1>6, QuietStep DEF OfRun

LEMMA RunEndsStep ==
    ASSUME IInv, NEW h \in Handlers, RunEnds(h)
    PROVE  IInv'
<1>1. PICK v \in PipelineVerdicts(handler[h].file, handler[h].text) :
         handler' = [handler EXCEPT ![h] = [@ EXCEPT !.at = "save", !.verdict = v]]
  BY DEF RunEnds
<1>2. v \in Verdicts
  BY DEF PipelineVerdicts, Verdicts
<1>3. (handler[h].text = "full" /\ handler[h].file \in Unclean) => v = Blocked
  BY DEF PipelineVerdicts
<1> QED
  BY <1>1, <1>2, <1>3, VerdictStep DEF RunEnds

LEMMA RunRaisesStep ==
    ASSUME IInv, NEW h \in Handlers, RunRaises(h)
    PROVE  IInv'
<1>1. ~(handler[h].text = "full" /\ handler[h].file \in Unclean)
  BY VerdictsAssumption DEF RunRaises, PipelineVerdicts
<1>2. CASE handler' = [handler EXCEPT ![h] =
                [@ EXCEPT !.at = "save", !.verdict = UnknownVerdict]]
  BY <1>1, <1>2, VerdictStep DEF RunRaises, Verdicts
<1>3. CASE GoTo(h, "insert_failure")
  <2>1. handler[h] \in Flights
    BY InFlightOf DEF RunRaises, At, Stages, IInv
  <2>2. "insert_failure" \in Stages
    BY DEF Stages
  <2>3. PICK y : y = [handler[h] EXCEPT !.at = "insert_failure"]
    OBVIOUS
  <2>4. /\ y \in Flights /\ y.at = "insert_failure" /\ y.kind = handler[h].kind
        /\ y.trace = handler[h].trace /\ y.text = handler[h].text
    BY <2>1, <2>2, <2>3, MovedFlight
  <2>5. FlightOk(handler[h]) /\ handler[h].at = "run"
    BY DEF IInv, FlightsOk, RunRaises, At
  <2>6. FlightOk(y)
    BY <2>4, <2>5 DEF FlightOk, OfRun
  <2>7. handler' = [handler EXCEPT ![h] = y]
    BY <1>3, <2>3 DEF GoTo
  <2> QED
    BY <2>4, <2>5, <2>6, <2>7, QuietStep DEF OfRun, RunRaises
<1> QED
  BY <1>2, <1>3 DEF RunRaises

LEMMA StopsStep ==
    ASSUME IInv, NEW h \in Handlers, Stops(h)
    PROVE  IInv'
BY FinishStep DEF Stops

LEMMA CrashStep ==
    ASSUME IInv, Crash
    PROVE  IInv'
<1>1. /\ \A h \in Handlers : handler'[h] = Idle
      /\ UNCHANGED <<tables, used, misread, unsaved, shown>>
  BY DEF Crash
<1>2. TypeOK'
  BY DEF IInv, TypeOK, Crash, tables
<1>3. Tables'
  BY <1>1 DEF IInv, Tables, UnusedAreFresh, Fresh, Uncached, CacheHasTrail, ShownIsRecorded,
         FailureHasNoVerdict, CacheKeepsBlocked, tables
<1>4. FlightsOk' /\ OwnTraces'
  BY <1>1, IdleFlight DEF FlightsOk, FlightOk, OwnTraces
<1> QED
  BY <1>2, <1>3, <1>4 DEF IInv


-----------------------------------------------------------------------------
(* A run begins under a fresh trace_id.                                     *)

LEMMA StartStep ==
    ASSUME IInv, NEW h \in Handlers, NEW kind \in Kinds, NEW f \in Files,
           NEW t \in Traces, NEW text \in Texts,
           StartRun(h, kind, f, t, text),
           doc_cache' \in [Files -> Payloads \cup {Absent}],
           \A e \in Files : doc_cache'[e] = doc_cache[e] \/ doc_cache'[e] = Absent,
           UNCHANGED <<analyses, failed, misread, unsaved, shown>>
    PROVE  IInv'
<1>1. PICK y : y = [at |-> "run", kind |-> kind, file |-> f, trace |-> t,
                    text |-> text, verdict |-> None]
  OBVIOUS
<1>2. y \in Flights /\ y.at = "run" /\ y.trace = t /\ y.kind = kind /\ y.text = text
  BY <1>1 DEF Flights, Stages
<1>3. handler' = [handler EXCEPT ![h] = y]
  BY <1>1 DEF StartRun
<1>4. t \notin used /\ used' = used \cup {t}
  BY DEF StartRun
<1>5. \A g \in Handlers : handler[g].at \in OfRun => handler[g].trace \in used
  BY DEF IInv, FlightsOk, FlightOk
<1>6. /\ handler'[h] = y
      /\ \A g \in Handlers : g # h => handler'[g] = handler[g]
      /\ OwnTraces'
  BY <1>2, <1>3, <1>4, <1>5, OneHandler DEF IInv
<1>7. TypeOK'
  BY <1>2, <1>3, <1>4 DEF IInv, TypeOK
<1>8. \A s : /\ Fresh(s) => Fresh(s)'
             /\ \A e, v : Recorded(s, e, v) => Recorded(s, e, v)'
  BY DEF Fresh, Uncached, Recorded
<1>9. Tables'
  <2>1. UnusedAreFresh'
    BY <1>4, <1>8 DEF IInv, Tables, UnusedAreFresh
  <2>2. \A e \in Files : doc_cache'[e] # Absent => doc_cache'[e] = doc_cache[e]
    OBVIOUS
  <2>3. CacheHasTrail'
    BY <2>2 DEF IInv, Tables, CacheHasTrail
  <2>4. ShownIsRecorded' /\ FailureHasNoVerdict'
    BY <2>2 DEF IInv, Tables, ShownIsRecorded, FailureHasNoVerdict
  <2>5. CacheKeepsBlocked'
    BY <2>2, FilesAssumption DEF IInv, Tables, CacheKeepsBlocked
  <2> QED
    BY <2>1, <2>3, <2>4, <2>5 DEF Tables
<1>10. Fresh(t)'
  BY <1>4, <1>8 DEF IInv, Tables, UnusedAreFresh
<1>11. FlightOk(y)'
  BY <1>2, <1>4, <1>10 DEF FlightOk
<1>12. FlightsOk'
  BY <1>4, <1>6, <1>8, <1>11, AllFlights DEF IInv
<1> QED
  BY <1>6, <1>7, <1>9, <1>12 DEF IInv

LEMMA ForceRefreshStep ==
    ASSUME IInv, NEW h \in Handlers, NEW kind \in {"upload", "batch"}, NEW f \in Files,
           ForceRefresh(h, kind, f)
    PROVE  IInv'
<1>1. PICK t \in Traces, text \in Texts : StartRun(h, kind, f, t, text)
  BY DEF ForceRefresh, ReadAndRun, TextsOf, Texts
<1>2. /\ doc_cache' \in [Files -> Payloads \cup {Absent}]
      /\ \A e \in Files : doc_cache'[e] = doc_cache[e] \/ doc_cache'[e] = Absent
  BY DEF ForceRefresh, IInv, TypeOK
<1>3. kind \in Kinds /\ UNCHANGED <<analyses, failed, misread, unsaved, shown>>
  BY DEF ForceRefresh, Kinds
<1> QED
  BY <1>1, <1>2, <1>3, StartStep

LEMMA CacheMissStep ==
    ASSUME IInv, NEW h \in Handlers, NEW kind \in {"upload", "batch"}, NEW f \in Files,
           CacheMiss(h, kind, f)
    PROVE  IInv'
<1>1. PICK t \in Traces, text \in Texts : StartRun(h, kind, f, t, text)
  BY DEF CacheMiss, ReadAndRun, TextsOf, Texts
<1> QED
  BY <1>1, StartStep DEF CacheMiss, Kinds, IInv, TypeOK, tables

LEMMA IngestEmailStep ==
    ASSUME IInv, NEW h \in Handlers, NEW f \in Files, IngestEmail(h, f)
    PROVE  IInv'
<1>1. PICK t \in Traces : StartRun(h, "email", f, t, "full")
  BY DEF IngestEmail
<1>2. "full" \in Texts
  BY DEF Texts
<1> QED
  BY <1>1, <1>2, StartStep DEF IngestEmail, Kinds, IInv, TypeOK, tables

LEMMA ReanalyzeStep ==
    ASSUME IInv, NEW h \in Handlers, NEW kind \in Again, NEW t \in Traces,
           Reanalyze(h, kind, t)
    PROVE  IInv'
<1>1. PICK text \in Texts : text = analyses[t].raw_text
  BY DEF Reanalyze, IInv, TypeOK, Rows
<1>2. PICK new \in Traces : StartRun(h, kind, analyses[t].file, new, text)
  BY <1>1 DEF Reanalyze
<1>3. analyses[t].file \in Files
  BY DEF Reanalyze, IInv, TypeOK, Rows
<1>4. kind \in Kinds
  BY DEF Again, Kinds
<1> QED
  BY <1>2, <1>3, <1>4, StartStep DEF Reanalyze, IInv, TypeOK, tables

-----------------------------------------------------------------------------
(* An officer, or a back-fill, changes a row that is there.                 *)

\* The new row r of t is for the same document, and says the same unless an
\* officer decided.
LEMMA RowStep ==
    ASSUME IInv, NEW t \in Traces, NEW r \in Rows, analyses[t] # Absent,
           r.file = analyses[t].file,
           r.by = "pipeline" =>
              analyses[t].by = "pipeline" /\ r.decision = analyses[t].decision,
           analyses' = [analyses EXCEPT ![t] = r],
           UNCHANGED <<failed, doc_cache, used, misread, unsaved, shown>>
    PROVE  /\ analyses' \in [Traces -> Rows \cup {Absent}]
           /\ Tables'
           /\ \A s \in Traces : /\ Fresh(s) => Fresh(s)'
                                /\ \A f, v : Recorded(s, f, v) => Recorded(s, f, v)'
<1>1. /\ analyses \in [Traces -> Rows \cup {Absent}]
      /\ analyses' \in [Traces -> Rows \cup {Absent}]
  BY DEF IInv, TypeOK
<1>2. /\ r # Absent /\ analyses'[t] = r
      /\ \A s \in Traces : s # t => analyses'[s] = analyses[s]
  BY <1>1, RowIsThere
<1>3. \A s \in Traces : analyses'[s] = Absent <=> analyses[s] = Absent
  BY <1>2
<1>4. \A s \in Traces : Fresh(s) <=> Fresh(s)'
  BY <1>3 DEF Fresh, Uncached
<1>5. \A s \in Traces : \A f, v : Recorded(s, f, v) => Recorded(s, f, v)'
  BY <1>2 DEF Recorded
<1>6. UnusedAreFresh'
  BY <1>4 DEF IInv, Tables, UnusedAreFresh
<1>7. CacheHasTrail'
  <2> SUFFICES ASSUME NEW f \in Files, doc_cache[f] # Absent
               PROVE  Recorded(doc_cache[f].trace, f, doc_cache[f].verdict)'
    BY DEF CacheHasTrail, Recorded
  <2>1. doc_cache[f].trace \in Traces
    BY DEF IInv, TypeOK, Payloads
  <2>2. Recorded(doc_cache[f].trace, f, doc_cache[f].verdict)
    BY DEF IInv, Tables, CacheHasTrail, Recorded
  <2> QED
    BY <1>5, <2>1, <2>2
<1>8. ShownIsRecorded' /\ FailureHasNoVerdict'
  BY <1>3 DEF IInv, TypeOK, Tables, ShownIsRecorded, FailureHasNoVerdict
<1> QED
  BY <1>1, <1>4, <1>5, <1>6, <1>7, <1>8 DEF IInv, Tables, CacheKeepsBlocked

LEMMA DecidedRow ==
    ASSUME NEW r \in Rows, NEW d \in Overrides
    PROVE  /\ [r EXCEPT !.decision = d, !.by = "officer"] \in Rows
           /\ [r EXCEPT !.decision = d, !.by = "officer"].file = r.file
           /\ [r EXCEPT !.decision = d, !.by = "officer"].by = "officer"
<1> PICK f \in Files, e \in Verdicts \cup Overrides, b \in {"pipeline", "officer"},
         w \in Texts \cup {None} :
      r = [file |-> f, decision |-> e, by |-> b, raw_text |-> w]
  BY DEF Rows
<1> QED
  BY DEF Rows

LEMMA BackFilledRow ==
    ASSUME NEW r \in Rows, NEW text \in Texts
    PROVE  /\ [r EXCEPT !.raw_text = text] \in Rows
           /\ [r EXCEPT !.raw_text = text].file = r.file
           /\ [r EXCEPT !.raw_text = text].by = r.by
           /\ [r EXCEPT !.raw_text = text].decision = r.decision
<1> PICK f \in Files, e \in Verdicts \cup Overrides, b \in {"pipeline", "officer"},
         w \in Texts \cup {None} :
      r = [file |-> f, decision |-> e, by |-> b, raw_text |-> w]
  BY DEF Rows
<1> QED
  BY DEF Rows

LEMMA SetDecisionStep ==
    ASSUME IInv, NEW t \in Traces, NEW d \in Overrides, SetDecision(t, d)
    PROVE  /\ IInv'
           /\ analyses'[t] # Absent /\ analyses'[t].by = "officer"
           /\ \A s \in Traces : s # t => analyses'[s] = analyses[s]
<1>1. analyses[t] \in Rows
  BY DEF SetDecision, IInv, TypeOK
<1>2. PICK r : r = [analyses[t] EXCEPT !.decision = d, !.by = "officer"]
  OBVIOUS
<1>4. r \in Rows /\ r.file = analyses[t].file /\ r.by = "officer"
  BY <1>1, <1>2, DecidedRow
<1>5. analyses' = [analyses EXCEPT ![t] = r]
  BY <1>2 DEF SetDecision
<1>6. /\ analyses' \in [Traces -> Rows \cup {Absent}]
      /\ Tables'
      /\ \A s \in Traces : /\ Fresh(s) => Fresh(s)'
                           /\ \A g, v : Recorded(s, g, v) => Recorded(s, g, v)'
  BY <1>4, <1>5, RowStep DEF SetDecision
<1>7. TypeOK' /\ OwnTraces'
  BY <1>6 DEF SetDecision, IInv, TypeOK, OwnTraces
<1>8. FlightsOk'
  BY <1>6, TableFlights DEF SetDecision, IInv
<1>9. /\ analyses'[t] = r
      /\ \A s \in Traces : s # t => analyses'[s] = analyses[s]
  BY <1>5 DEF IInv, TypeOK
<1> QED
  BY <1>4, <1>6, <1>7, <1>8, <1>9, RowIsThere DEF IInv

LEMMA BackFillStep ==
    ASSUME IInv, NEW h \in Handlers, BackFill(h)
    PROVE  /\ IInv'
           /\ \A t \in Traces : analyses[t] # Absent =>
                 analyses'[t] # Absent /\ analyses'[t].by = analyses[t].by
<1>1. handler[h] \in Flights
  BY InFlightOf DEF BackFill, At, Stages, IInv
<1>2. PICK t \in Traces : t = handler[h].trace
  BY <1>1 DEF Flights
<1>3. UNCHANGED <<failed, doc_cache, used, misread, unsaved, shown>> /\ Finish(h)
  BY DEF BackFill
<1>4. CASE analyses[t] = Absent
  <2>1. analyses' = analyses
    BY <1>2, <1>4 DEF BackFill
  <2> QED
    BY <1>3, <2>1, FinishStep DEF tables
<1>5. CASE analyses[t] # Absent
  <2>1. analyses[t] \in Rows
    BY <1>5 DEF IInv, TypeOK
  <2>12. PICK text \in Texts :
            analyses' = [analyses EXCEPT ![t].raw_text = text]
    BY <1>2, <1>5 DEF BackFill, TextsOf, Texts
  <2>2. PICK r : r = [analyses[t] EXCEPT !.raw_text = text]
    OBVIOUS
  <2>3. /\ r \in Rows /\ r.file = analyses[t].file
        /\ r.by = analyses[t].by /\ r.decision = analyses[t].decision
    BY <2>1, <2>2, BackFilledRow
  <2>4. analyses' = [analyses EXCEPT ![t] = r]
    BY <2>2, <2>12
  <2>5. /\ analyses' \in [Traces -> Rows \cup {Absent}]
        /\ Tables'
        /\ \A s \in Traces : /\ Fresh(s) => Fresh(s)'
                             /\ \A g, v : Recorded(s, g, v) => Recorded(s, g, v)'
    BY <1>3, <1>5, <2>3, <2>4, RowStep
  <2>6. \A g \in Handlers : handler'[g] = handler[g] \/ handler'[g] = Idle
    BY <1>3 DEF Finish, IInv, TypeOK
  <2>7. TypeOK'
    BY <1>3, <2>5 DEF Finish, IInv, TypeOK
  <2>8. OwnTraces'
    BY <2>6, IdleFlight DEF IInv, OwnTraces
  <2>9. FlightsOk'
    <3> SUFFICES ASSUME NEW g \in Handlers, NEW x, x = handler'[g] PROVE FlightOk(x)'
      BY DEF FlightsOk, FlightOk
    <3>1. FlightOk(x)
      BY <2>6, IdleFlight DEF IInv, FlightsOk
    <3>2. x.at \in OfRun => x.trace \in Traces
      BY <3>1 DEF FlightOk, IInv, TypeOK
    <3> QED
      BY <1>3, <2>5, <3>1, <3>2, Bystander
  <2>10. /\ analyses'[t] = r
         /\ \A s \in Traces : s # t => analyses'[s] = analyses[s]
    BY <2>4 DEF IInv, TypeOK
  <2> QED
    BY <2>3, <2>5, <2>7, <2>8, <2>9, <2>10, RowIsThere DEF IInv
<1> QED
  BY <1>4, <1>5

-----------------------------------------------------------------------------
(* What a run does to the tables, under a trace_id of its own.              *)

\* The others' traces are not the one of h.
LEMMA OtherTraces ==
    ASSUME IInv, NEW h \in Handlers, handler[h].at \in OfRun
    PROVE  /\ handler[h].trace \in used
           /\ \A g \in Handlers : \A s :
                 (g # h /\ handler[g].at \in OfRun /\ handler[g].trace = s) =>
                    s # handler[h].trace
BY DEF IInv, FlightsOk, FlightOk, OwnTraces

LEMMA InsertFailureStep ==
    ASSUME IInv, NEW h \in Handlers, InsertFailure(h)
    PROVE  IInv'
<1>0. UNCHANGED <<analyses, doc_cache, used, misread, unsaved, shown>> /\ Finish(h)
  BY DEF InsertFailure
<1>1. CASE UNCHANGED failed
  BY <1>0, <1>1, FinishStep DEF tables
<1>2. CASE failed' = failed \cup {handler[h].trace}
  <2>1. PICK t : t = handler[h].trace
    OBVIOUS
  <2>2. handler[h].at \in OfRun
    BY DEF InsertFailure, At, OfRun
  <2>3. t \in used /\ Fresh(t)
    BY <2>1, <2>2 DEF IInv, FlightsOk, FlightOk, InsertFailure, At
  <2>4. handler' = [handler EXCEPT ![h] = Idle]
    BY <1>0 DEF Finish
  <2>5. /\ handler'[h] = Idle
        /\ \A g \in Handlers : g # h => handler'[g] = handler[g]
        /\ OwnTraces'
    BY <2>4, IdleFlight, OneHandler DEF IInv
  <2>6. TypeOK'
    BY <1>0, <1>2, <2>1, <2>3, <2>4 DEF IInv, TypeOK
  <2>7. \A s : s # t => /\ Fresh(s) => Fresh(s)'
                        /\ s \notin failed => s \notin failed'
    BY <1>0, <1>2, <2>1 DEF Fresh, Uncached
  <2>8. \A s, f, v : Recorded(s, f, v) => Recorded(s, f, v)'
    BY <1>0 DEF Recorded
  <2>9. FlightOk(Idle)'
    BY IdleFlight DEF FlightOk
  <2>10. FlightsOk'
    BY <1>0, <2>1, <2>2, <2>5, <2>7, <2>8, <2>9, OtherTraces, AllFlights DEF IInv
  <2>11. UnusedAreFresh'
    BY <1>0, <2>3, <2>7 DEF IInv, Tables, UnusedAreFresh
  <2>12. FailureHasNoVerdict'
    BY <1>0, <1>2, <2>1, <2>3 DEF IInv, Tables, FailureHasNoVerdict, Fresh, Uncached
  <2>13. CacheHasTrail' /\ ShownIsRecorded' /\ CacheKeepsBlocked'
    BY <1>0 DEF IInv, Tables, CacheHasTrail, ShownIsRecorded, CacheKeepsBlocked
  <2> QED
    BY <2>5, <2>6, <2>10, <2>11, <2>12, <2>13 DEF IInv, Tables
<1> QED
  BY <1>1, <1>2 DEF InsertFailure

\* The run in flight with h goes on to the stage, or is over.
LEMMA AdvanceStep ==
    ASSUME TypeOK, NEW h \in Handlers, handler[h].at \in Stages,
           NEW stage \in Stages \cup {"idle"}, Advance(h, stage)
    PROVE  \E y \in Flights \cup {Idle} :
              /\ handler' = [handler EXCEPT ![h] = y]
              /\ y.at = stage
              /\ stage # "idle" =>
                    /\ y.kind = handler[h].kind
                    /\ y.file = handler[h].file
                    /\ y.trace = handler[h].trace
                    /\ y.text = handler[h].text
                    /\ y.verdict = handler[h].verdict
<1>1. CASE stage = "idle"
  BY <1>1, IdleFlight DEF Advance, Finish
<1>2. CASE stage # "idle"
  <2>1. handler[h] \in Flights
    BY InFlightOf
  <2>2. PICK y : y = [handler[h] EXCEPT !.at = stage]
    OBVIOUS
  <2>3. /\ y \in Flights /\ y.at = stage /\ y.kind = handler[h].kind
        /\ y.file = handler[h].file /\ y.trace = handler[h].trace
        /\ y.text = handler[h].text /\ y.verdict = handler[h].verdict
    BY <1>2, <2>1, <2>2, MovedFlight
  <2>4. handler' = [handler EXCEPT ![h] = y]
    BY <1>2, <2>2 DEF Advance, GoTo
  <2> QED
    BY <2>3, <2>4
<1> QED
  BY <1>1, <1>2

\* The step writes one trace's row, which is Absent before: what was said of
\* the row of an officer still holds.
LEMMA SaveStep ==
    ASSUME IInv, NEW h \in Handlers, Save(h)
    PROVE  /\ IInv'
           /\ \A t \in Traces : analyses[t] # Absent => analyses'[t] = analyses[t]
<1>1. PICK x \in Flights : x = handler[h]
  BY InFlightOf DEF Save, At, Stages, IInv
<1>2. PICK t \in Traces, f \in Files, v \in Verdicts \cup {None} :
         t = x.trace /\ f = x.file /\ v = x.verdict
  BY DEF Flights
<1>3. /\ t \in used /\ Fresh(t) /\ v \in Verdicts
      /\ (x.text = "full" /\ f \in Unclean) => v = Blocked
      /\ x.at = "save" /\ x.at \in OfRun
  BY <1>1, <1>2 DEF IInv, FlightsOk, FlightOk, Save, At, OfRun
<1>4. UNCHANGED <<failed, doc_cache, used, misread, shown>>
  BY DEF Save
<1>18. x.text \in Texts
  BY DEF Flights
<1>5. PICK text \in Texts \cup {None} :
         \/ /\ analyses' = [analyses EXCEPT ![t] =
                  [file |-> f, decision |-> v, by |-> "pipeline",
                   raw_text |-> text]]
            /\ unsaved' = unsaved
         \/ analyses' = analyses /\ unsaved' = unsaved \cup {t}
  <2>1. (IF v = Blocked THEN {None} ELSE Kept(h)) \subseteq Texts \cup {None}
    BY <1>1, <1>18 DEF Kept, Texts
  <2> QED
    BY <1>1, <1>2, <2>1 DEF Save
<1>19. PICK r : r = [file |-> f, decision |-> v, by |-> "pipeline",
                     raw_text |-> text]
  OBVIOUS
<1>6. r \in Rows /\ r.file = f /\ r.decision = v
  BY <1>3, <1>19 DEF Rows
<1>7. \/ analyses' = [analyses EXCEPT ![t] = r] /\ unsaved' = unsaved
      \/ analyses' = analyses /\ unsaved' = unsaved \cup {t}
  BY <1>5, <1>19
<1>8. /\ \A s \in Traces : s # t => analyses'[s] = analyses[s]
      /\ unsaved \subseteq unsaved'
      /\ \/ analyses'[t] = r
         \/ analyses'[t] = Absent /\ t \in unsaved'
  BY <1>3, <1>7 DEF IInv, TypeOK, Fresh
<1>9. AfterSave(x.kind) \in {"done", "insert_cache", "idle"}
  BY DEF AfterSave
<1>10. PICK y \in Flights \cup {Idle} :
              /\ handler' = [handler EXCEPT ![h] = y]
              /\ y.at = AfterSave(x.kind)
              /\ AfterSave(x.kind) # "idle" =>
                    /\ y.kind = x.kind /\ y.file = f /\ y.trace = t
                    /\ y.text = x.text /\ y.verdict = v
  BY <1>1, <1>2, <1>3, <1>9, AdvanceStep DEF Save, Stages, IInv
<1>11. /\ handler'[h] = y
       /\ \A g \in Handlers : g # h => handler'[g] = handler[g]
       /\ OwnTraces'
  <2>1. y.at \in OfRun => y.trace = t
    BY <1>10 DEF OfRun
  <2> QED
    BY <1>1, <1>2, <1>3, <1>10, <2>1, OneHandler, OtherTraces DEF IInv
<1>12. TypeOK'
  BY <1>3, <1>4, <1>6, <1>7, <1>10 DEF IInv, TypeOK
<1>13. \A s \in Traces : s # t => /\ Fresh(s) => Fresh(s)'
                                  /\ \A e, w : Recorded(s, e, w) => Recorded(s, e, w)'
  BY <1>4, <1>8 DEF Fresh, Uncached, Recorded
<1>14. Recorded(t, f, v)'
  BY <1>6, <1>8, RowIsThere DEF Recorded
<1>15. FlightsOk'
  <2>1. x.kind \in Kinds /\ (y.at = "insert_cache" => x.kind \in {"upload", "batch"})
    BY <1>10 DEF AfterSave, Streams, Flights
  <2>2. t \notin failed'
    BY <1>3, <1>4 DEF Fresh
  <2>3. y.at \in {"done", "insert_cache", "idle"}
    BY <1>9, <1>10
  <2>4. FlightOk(y)'
    BY <1>3, <1>4, <1>10, <1>14, <2>1, <2>2, <2>3 DEF FlightOk, OfRun
  <2>5. used \subseteq Traces
    BY DEF IInv, TypeOK
  <2> QED
    BY <1>1, <1>2, <1>3, <1>4, <1>11, <1>13, <2>4, <2>5, OtherTraces, AllFlights DEF IInv
<1>16. Tables'
  <2>1. UnusedAreFresh'
    BY <1>3, <1>4, <1>13 DEF IInv, Tables, UnusedAreFresh
  <2>2. CacheHasTrail'
    <3>1. \A e \in Files : doc_cache[e] # Absent =>
             doc_cache[e].trace \in Traces /\ doc_cache[e].trace # t
      BY <1>3 DEF Fresh, Uncached, IInv, TypeOK, Payloads
    <3> QED
      BY <1>4, <1>8, <3>1 DEF IInv, Tables, CacheHasTrail
  <2>3. ShownIsRecorded'
    <3> SUFFICES ASSUME NEW s \in shown PROVE analyses'[s] # Absent \/ s \in unsaved'
      BY <1>4 DEF ShownIsRecorded
    <3>1. s \in Traces /\ (analyses[s] # Absent \/ s \in unsaved)
      BY DEF IInv, Tables, ShownIsRecorded, TypeOK
    <3> QED
      BY <1>6, <1>8, <3>1, RowIsThere
  <2>4. FailureHasNoVerdict'
    <3>1. \A s \in failed : s \in Traces /\ s # t
      BY <1>3 DEF Fresh, IInv, TypeOK
    <3> QED
      BY <1>4, <1>8, <3>1 DEF IInv, Tables, FailureHasNoVerdict
  <2>5. CacheKeepsBlocked'
    BY <1>4 DEF IInv, Tables, CacheKeepsBlocked
  <2> QED
    BY <2>1, <2>2, <2>3, <2>4, <2>5 DEF Tables
<1>17. \A s \in Traces : analyses[s] # Absent => analyses'[s] = analyses[s]
  BY <1>3, <1>8 DEF Fresh
<1> QED
  BY <1>11, <1>12, <1>15, <1>16, <1>17 DEF IInv

LEMMA YieldDoneStep ==
    ASSUME IInv, NEW h \in Handlers, YieldDone(h)
    PROVE  IInv'
<1>1. PICK x \in Flights : x = handler[h]
  BY InFlightOf DEF YieldDone, At, Stages, IInv
<1>2. FlightOk(x) /\ x.at = "done" /\ x.at \in OfRun
  BY <1>1 DEF IInv, FlightsOk, YieldDone, At, OfRun
<1>3. UNCHANGED <<tables, used, misread, unsaved>> /\ shown' = shown \cup {x.trace}
  BY <1>1 DEF YieldDone
<1>4. AfterDone(x.kind) \in {"insert_cache", "idle"}
  BY DEF AfterDone
<1>5. PICK y \in Flights \cup {Idle} :
              /\ handler' = [handler EXCEPT ![h] = y]
              /\ y.at = AfterDone(x.kind)
              /\ AfterDone(x.kind) # "idle" =>
                    /\ y.kind = x.kind /\ y.file = x.file /\ y.trace = x.trace
                    /\ y.text = x.text /\ y.verdict = x.verdict
  BY <1>1, <1>2, <1>4, AdvanceStep DEF YieldDone, Stages, IInv
<1>6. /\ handler'[h] = y
      /\ \A g \in Handlers : g # h => handler'[g] = handler[g]
      /\ OwnTraces'
  <2>1. y.at \in OfRun => y.trace = x.trace
    BY <1>5 DEF OfRun
  <2> QED
    BY <1>1, <1>2, <1>5, <2>1, OneHandler, OtherTraces DEF IInv
<1>7. x.trace \in used /\ Recorded(x.trace, x.file, x.verdict)
  BY <1>2 DEF FlightOk
<1>8. TypeOK'
  BY <1>3, <1>5, <1>7 DEF IInv, TypeOK, tables
<1>9. \A t : /\ Fresh(t)' <=> Fresh(t)
             /\ \A f, v : Recorded(t, f, v)' <=> Recorded(t, f, v)
  BY <1>3 DEF Fresh, Uncached, Recorded, tables
<1>10. FlightsOk'
  <2>1. y.at = "insert_cache" => x.kind = "upload"
    BY <1>5 DEF AfterDone
  <2>2. FlightOk(y)'
    BY <1>2, <1>3, <1>4, <1>5, <1>9, <2>1 DEF FlightOk, OfRun, tables
  <2> QED
    BY <1>3, <1>6, <1>9, <2>2, AllFlights DEF IInv, tables
<1>11. UnusedAreFresh' /\ CacheHasTrail' /\ FailureHasNoVerdict' /\ CacheKeepsBlocked'
  BY <1>3 DEF IInv, Tables, UnusedAreFresh, Fresh, Uncached, CacheHasTrail,
              FailureHasNoVerdict, CacheKeepsBlocked, tables
<1>12. ShownIsRecorded'
  BY <1>3, <1>7 DEF IInv, Tables, ShownIsRecorded, Recorded, tables
<1> QED
  BY <1>6, <1>8, <1>10, <1>11, <1>12 DEF IInv, Tables

LEMMA InsertDocCacheStep ==
    ASSUME IInv, NEW h \in Handlers, InsertDocCache(h)
    PROVE  IInv'
<1>1. PICK x \in Flights : x = handler[h]
  BY InFlightOf DEF InsertDocCache, At, Stages, IInv
<1>2. /\ x.at = "insert_cache" /\ x.at \in OfRun
      /\ x.trace \in used
      /\ Recorded(x.trace, x.file, x.verdict)
      /\ x.trace \notin failed
      /\ x.verdict \in Verdicts /\ x.kind \notin Again
      /\ (x.text = "full" /\ x.file \in Unclean) => x.verdict = Blocked
  BY <1>1 DEF IInv, FlightsOk, FlightOk, InsertDocCache, At, OfRun, Again
<1>3. UNCHANGED <<analyses, failed, used, unsaved, shown>>
  BY DEF InsertDocCache
<1>4. PICK p : p = [trace |-> x.trace, verdict |-> x.verdict]
  OBVIOUS
<1>5. p \in Payloads /\ p.trace = x.trace /\ p.verdict = x.verdict
  BY <1>2, <1>4 DEF Payloads, Flights
<1>6. /\ doc_cache' = [doc_cache EXCEPT ![x.file] = p]
      /\ handler' = [handler EXCEPT ![h] = Idle]
  BY <1>1, <1>4 DEF InsertDocCache, Finish
<1>7. /\ \A f \in Files : doc_cache'[f] = IF f = x.file THEN p ELSE doc_cache[f]
      /\ x.file \in Files
  BY <1>6 DEF IInv, TypeOK, Flights
<1>18. misread' = IF x.text = "other" THEN misread \cup {x.file}
                                     ELSE misread \ {x.file}
  BY <1>1, <1>2 DEF InsertDocCache
<1>19. x.text = "full" \/ x.text = "other"
  BY DEF Flights, Texts
<1>8. /\ handler'[h] = Idle
      /\ \A g \in Handlers : g # h => handler'[g] = handler[g]
      /\ OwnTraces'
  BY <1>6, IdleFlight, OneHandler DEF IInv
<1>9. TypeOK'
  BY <1>3, <1>5, <1>6, <1>7, <1>18 DEF IInv, TypeOK
<1>10. \A s : s # x.trace => (Fresh(s) => Fresh(s)')
  BY <1>3, <1>5, <1>7 DEF Fresh, Uncached
<1>11. \A s, f, v : Recorded(s, f, v)' <=> Recorded(s, f, v)
  BY <1>3 DEF Recorded
<1>12. FlightsOk'
  <2>1. FlightOk(Idle)'
    BY IdleFlight DEF FlightOk
  <2> QED
    BY <1>1, <1>2, <1>3, <1>8, <1>10, <1>11, <2>1, OtherTraces, AllFlights DEF IInv
<1>13. UnusedAreFresh'
  BY <1>2, <1>3, <1>10 DEF IInv, Tables, UnusedAreFresh
<1>14. CacheHasTrail'
  <2> SUFFICES ASSUME NEW f \in Files, doc_cache'[f] # Absent
               PROVE  Recorded(doc_cache[f].trace, f, doc_cache[f].verdict)'
    BY DEF CacheHasTrail, Recorded
  <2>1. CASE f = x.file
    BY <1>2, <1>3, <1>5, <1>7, <2>1 DEF Recorded
  <2>2. CASE f # x.file
    BY <1>3, <1>7, <2>2 DEF IInv, Tables, CacheHasTrail, Recorded
  <2> QED
    BY <2>1, <2>2
<1>15. FailureHasNoVerdict'
  BY <1>2, <1>3, <1>5, <1>7 DEF IInv, Tables, FailureHasNoVerdict
<1>16. CacheKeepsBlocked'
  BY <1>2, <1>5, <1>7, <1>18, <1>19, FilesAssumption
  DEF IInv, Tables, CacheKeepsBlocked
<1>17. ShownIsRecorded'
  BY <1>3 DEF IInv, Tables, ShownIsRecorded
<1> QED
  BY <1>8, <1>9, <1>12, <1>13, <1>14, <1>15, <1>16, <1>17 DEF IInv, Tables

-----------------------------------------------------------------------------
(* The invariant, and what follows from it.                                 *)

LEMMA InitIInv == Init => IInv
BY IdleFlight, FilesAssumption
DEF Init, IInv, TypeOK, FlightsOk, OwnTraces, Tables, UnusedAreFresh, Fresh, Uncached,
    CacheHasTrail, ShownIsRecorded, FailureHasNoVerdict, CacheKeepsBlocked

LEMMA StutterIInv == IInv /\ UNCHANGED vars => IInv'
<1> SUFFICES ASSUME IInv, UNCHANGED vars PROVE IInv'
  OBVIOUS
<1>1. TypeOK' /\ OwnTraces'
  BY DEF vars, IInv, TypeOK, OwnTraces
<1>2. FlightsOk'
  BY DEF vars, IInv, FlightsOk, FlightOk, Fresh, Uncached, Recorded
<1>3. Tables'
  BY DEF vars, IInv, Tables, UnusedAreFresh, Fresh, Uncached, CacheHasTrail,
         ShownIsRecorded, FailureHasNoVerdict, CacheKeepsBlocked
<1> QED
  BY <1>1, <1>2, <1>3 DEF IInv

LEMMA NextIInv == IInv /\ [Next]_vars => IInv'
<1> SUFFICES ASSUME IInv, [Next]_vars PROVE IInv'
  OBVIOUS
<1>1. CASE \E h \in Handlers : Request(h)
  <2> PICK h \in Handlers : Request(h)
    BY <1>1
  <2>1. ASSUME NEW kind \in {"upload", "batch"}, NEW f \in Files, ForceRefresh(h, kind, f)
        PROVE  IInv'
    BY <2>1, ForceRefreshStep
  <2>2. ASSUME NEW kind \in {"upload", "batch"}, NEW f \in Files, CacheMiss(h, kind, f)
        PROVE  IInv'
    BY <2>2, CacheMissStep
  <2>3. ASSUME NEW f \in Files, IngestEmail(h, f)
        PROVE  IInv'
    BY <2>3, IngestEmailStep
  <2>4. ASSUME NEW f \in Files, CacheHit(h, f)
        PROVE  IInv'
    BY <2>4, CacheHitStep
  <2>5. ASSUME NEW kind \in Again, NEW t \in Traces, Reanalyze(h, kind, t)
        PROVE  IInv'
    BY <2>5, ReanalyzeStep
  <2> QED
    BY <2>1, <2>2, <2>3, <2>4, <2>5 DEF Request
<1>2. CASE \E h \in Handlers : Step(h)
  <2> PICK h \in Handlers : Step(h)
    BY <1>2
  <2> QED
    BY LookForTextStep, BackFillStep, RunEndsStep, RunRaisesStep, InsertFailureStep,
       SaveStep, YieldDoneStep, InsertDocCacheStep, StopsStep DEF Step
<1>3. CASE \E t \in Traces, d \in Overrides : SetDecision(t, d)
  BY <1>3, SetDecisionStep
<1>4. CASE Crash
  BY <1>4, CrashStep
<1>5. CASE UNCHANGED vars
  BY <1>5, StutterIInv
<1> QED
  BY <1>1, <1>2, <1>3, <1>4, <1>5 DEF Next

\* What the handlers in flight may rely on holds in every state, whatever
\* fails, leaves or dies (_stream_graph, _process_batch, history_store.py).
THEOREM InductiveInvariant == Spec => []IInv
<1>1. Init => IInv
  BY InitIInv
<1>2. IInv /\ [Next]_vars => IInv'
  BY NextIInv
<1> QED
  BY <1>1, <1>2, PTL DEF Spec

\* The tables hold rows and payloads of their kind, and only trace_ids that
\* were handed out (history_store.py's schema).
THEOREM TypeCorrect == Spec => []TypeOK
<1>1. IInv => TypeOK
  BY DEF IInv
<1> QED
  BY <1>1, InductiveInvariant, PTL

\* A payload that is cached comes from a run whose row says the same, unless an
\* officer changed it or its insert raised (_stream_graph, _process_batch).
THEOREM CachedVerdictsHaveATrail == Spec => []CacheHasTrail
<1>1. IInv => CacheHasTrail
  BY DEF IInv, Tables
<1> QED
  BY <1>1, InductiveInvariant, PTL

\* A client sees "done" only for a verdict whose insert has been tried, so that
\* leaving the stream cannot undo it (_stream_graph).
THEOREM ShownVerdictsAreRecorded == Spec => []ShownIsRecorded
<1>1. IInv => ShownIsRecorded
  BY DEF IInv, Tables
<1> QED
  BY <1>1, InductiveInvariant, PTL

\* A trace in failed_analyses is nowhere else (_stream_graph's except clause).
THEOREM FailuresHaveNoVerdict == Spec => []FailureHasNoVerdict
<1>1. IInv => FailureHasNoVerdict
  BY DEF IInv, Tables
<1> QED
  BY <1>1, InductiveInvariant, PTL

\* A document the guardrail blocks is never served another verdict from
\* doc_cache, but for one that a new run on another text of it gave
\* (insert_doc_cache's callers in routes.py): no re-analysis reaches the cache.
THEOREM BlockedStaysBlocked == Spec => []CacheKeepsBlocked
<1>1. IInv => CacheKeepsBlocked
  BY DEF IInv, Tables
<1> QED
  BY <1>1, InductiveInvariant, PTL

LEMMA OverrideStep ==
    ASSUME IInv, [Next]_vars, NEW t \in Traces,
           analyses[t] # Absent, analyses[t].by = "officer"
    PROVE  analyses'[t] # Absent /\ analyses'[t].by = "officer"
<1>1. CASE \E h \in Handlers : BackFill(h)
  BY <1>1, BackFillStep
<1>2. CASE \E h \in Handlers : Save(h)
  BY <1>2, SaveStep
<1>3. CASE \E s \in Traces, d \in Overrides : SetDecision(s, d)
  BY <1>3, SetDecisionStep
<1>4. CASE UNCHANGED analyses
  BY <1>4
<1>5. ASSUME NEW h \in Handlers, Request(h)
      PROVE  UNCHANGED analyses
  BY <1>5 DEF Request, ForceRefresh, CacheMiss, IngestEmail, CacheHit, Reanalyze, tables
<1>6. ASSUME NEW h \in Handlers, Step(h), ~BackFill(h), ~Save(h)
      PROVE  UNCHANGED analyses
  BY <1>6 DEF Step, LookForText, RunEnds, RunRaises, InsertFailure, YieldDone,
              InsertDocCache, Stops, tables
<1>7. Crash \/ UNCHANGED vars => UNCHANGED analyses
  BY DEF Crash, vars, tables
<1> QED
  BY <1>1, <1>2, <1>3, <1>4, <1>5, <1>6, <1>7 DEF Next

\* An officer's decision stays an officer's (set_decision_override): a new run
\* never writes over a row, and a back-fill changes its text alone.
THEOREM DecisionsAreKept == Spec => OverrideIsPermanent
<1>1. IInv /\ [Next]_vars =>
        [\A t \in Traces : (analyses[t] # Absent /\ analyses[t].by = "officer") =>
            analyses'[t] # Absent /\ analyses'[t].by = "officer"]_vars
  BY OverrideStep
<1> QED
  BY <1>1, InductiveInvariant, PTL DEF Spec, OverrideIsPermanent

=============================================================================
