-------------------------- MODULE ClauseIndexProofs --------------------------
(***************************************************************************)
(* Proofs about ClauseIndex, for any runs, texts and chunks: what a run    *)
(* sees of its document, that nothing sends a run back, and that no run    *)
(* waits for a step that cannot come.                                      *)
(*                                                                         *)
(* The invariant says what is on the server of a text nobody disturbed:    *)
(* nothing before the build, what the one builder has added during it, and *)
(* every chunk once afterwards.                                            *)
(***************************************************************************)
EXTENDS ClauseIndex, TLAPS

Adding(r, t) == stage[r] = "adding" /\ TextOf[r] = t

\* Only chunks of its text go into an index.
OwnChunks ==
    /\ \A t \in Texts, c \in Chunks : ChunkOf[c] # t => server[t][c] = 0
    /\ \A r \in Runs : stage[r] = "adding" =>
          /\ TextOf[r] \in exists
          /\ todo[r] \subseteq Pieces(TextOf[r])

Undisturbed(t) ==
    /\ t \notin exists => server[t] = Empty
    /\ t \in exists /\ ~ BeingBuilt(t) => server[t] = Once(t)
    /\ \A r \in Runs : Adding(r, t) =>
          /\ \A s \in Runs : Adding(s, t) => s = r
          /\ \A c \in Chunks : server[t][c] =
                IF ChunkOf[c] = t /\ c \notin todo[r] THEN 1 ELSE 0

\* The index on the server that a run has in hand has been built.
InHand(r) ==
    stage[r] \in {"built", "saving", "ready"} /\ held[r] # "own" =>
        \/ TextOf[r] \in disturbed
        \/ TextOf[r] \in exists /\ ~ BeingBuilt(TextOf[r])

IInv ==
    /\ TypeOK
    /\ OwnChunks
    /\ \A t \in Texts : t \in disturbed \/ Undisturbed(t)
    /\ \A r \in Runs : InHand(r)
    /\ SearchIsExact

-----------------------------------------------------------------------------
\* A run's text, and the run's entries.
LEMMA RunFacts ==
    ASSUME TypeOK, NEW r \in Runs
    PROVE  /\ TextOf[r] \in Texts
           /\ stage \in [Runs -> Stages]
           /\ held \in [Runs -> {"none", "own", "server"}]
           /\ seen \in [Runs -> Copies]
BY TextsAssumption DEF TypeOK

LEMMA InitInv == ASSUME Init PROVE IInv
<1> USE TextsAssumption
<1>1. TypeOK
  BY DEF Init, TypeOK, Stages, Files, Copies, Empty
<1>2. OwnChunks
  BY DEF Init, OwnChunks, Empty
<1>3. \A t \in Texts : Undisturbed(t)
  BY DEF Init, Undisturbed, Adding
<1>4. (\A r \in Runs : InHand(r)) /\ SearchIsExact
  BY DEF Init, InHand, SearchIsExact
<1> QED
  BY <1>1, <1>2, <1>3, <1>4 DEF IInv

\* Steps that leave the server alone, and move no run into or out of a build.
LEMMA QuietStep ==
    ASSUME IInv, NEW r \in Runs, NEW s \in Stages, stage[r] # "adding",
           s \notin {"adding", "searched"}, stage' = [stage EXCEPT ![r] = s],
           UNCHANGED <<mode, exists, server, seen>>,
           todo' \in [Runs -> SUBSET Chunks],
           \A q \in Runs : q # r => todo'[q] = todo[q],
           disk' \in [Texts -> Files], held' \in [Runs -> {"none", "own", "server"}],
           \A q \in Runs : q # r => held'[q] = held[q],
           disturbed \subseteq disturbed', disturbed' \subseteq Texts,
           stage[r] \notin Ended,
           s \in {"built", "saving", "ready"} /\ held'[r] # "own" =>
               \/ TextOf[r] \in disturbed'
               \/ TextOf[r] \in exists /\ ~ BeingBuilt(TextOf[r])
    PROVE  IInv'
<1>1. stage \in [Runs -> Stages]
  BY DEF IInv, TypeOK
<1>2. stage' \in [Runs -> Stages] /\ stage'[r] = s
      /\ \A q \in Runs : q # r => stage'[q] = stage[q]
  BY <1>1
<1>3. \A q \in Runs : stage'[q] = "adding" <=> stage[q] = "adding"
  BY <1>2
<1>4. TypeOK'
  BY <1>2 DEF IInv, TypeOK
<1>5. \A t \in Texts : BeingBuilt(t)' <=> BeingBuilt(t)
  BY <1>3 DEF BeingBuilt
<1>6. OwnChunks'
  BY <1>3 DEF IInv, OwnChunks
<1>7. \A t \in Texts : t \in disturbed' \/ Undisturbed(t)'
  BY <1>3, <1>5 DEF IInv, Undisturbed, Adding
<1>8. \A q \in Runs : InHand(q)'
  <2> SUFFICES ASSUME NEW q \in Runs PROVE InHand(q)'
    OBVIOUS
  <2>1. TextOf[q] \in Texts
    BY TextsAssumption
  <2>2. CASE q = r
    BY <2>1, <2>2, <1>2, <1>5 DEF InHand
  <2>3. CASE q # r
    BY <2>1, <2>3, <1>2, <1>5 DEF IInv, InHand
  <2> QED
    BY <2>2, <2>3
<1>9. SearchIsExact'
  BY <1>2 DEF IInv, SearchIsExact
<1> QED
  BY <1>4, <1>6, <1>7, <1>8, <1>9 DEF IInv

LEMMA CreateIndexInv == ASSUME IInv, NEW r \in Runs, CreateIndex(r) PROVE IInv'
<1> DEFINE t == TextOf[r]
<1>1. /\ stage[r] = "missed" /\ exists' = exists \cup {t}
      /\ todo' = [todo EXCEPT ![r] = Pieces(t)]
      /\ stage' = [stage EXCEPT ![r] = "adding"]
      /\ UNCHANGED <<mode, disk, server, held, seen>>
      /\ t \in exists => disturbed' = disturbed \cup {t}
      /\ t \notin exists => disturbed' = disturbed
  BY DEF CreateIndex, Enter, IndexName, Disturb
<1>2. t \in Texts /\ stage \in [Runs -> Stages] /\ todo \in [Runs -> SUBSET Chunks]
      /\ exists \subseteq Texts /\ disturbed \subseteq Texts
  BY TextsAssumption DEF IInv, TypeOK
<1>3. /\ stage'[r] = "adding" /\ todo'[r] = Pieces(t)
      /\ \A q \in Runs : q # r => stage'[q] = stage[q] /\ todo'[q] = todo[q]
  BY <1>1, <1>2
<1>4. TypeOK'
  <2>1. stage' \in [Runs -> Stages] /\ todo' \in [Runs -> SUBSET Chunks]
    BY <1>1, <1>2 DEF Stages, Pieces
  <2>2. exists' \subseteq Texts /\ disturbed' \subseteq Texts
    BY <1>1, <1>2
  <2> QED
    BY <1>1, <2>1, <2>2 DEF IInv, TypeOK
<1>5. OwnChunks'
  BY <1>1, <1>3 DEF IInv, OwnChunks
<1>6. \A u \in Texts : u # t => (BeingBuilt(u)' <=> BeingBuilt(u))
  BY <1>3 DEF BeingBuilt
<1>7. ASSUME NEW u \in Texts, u \notin disturbed' PROVE Undisturbed(u)'
  <2>1. u \notin disturbed /\ Undisturbed(u)
    BY <1>1, <1>7 DEF IInv
  <2>2. CASE u = t
    <3>1. t \notin exists /\ server[t] = Empty
      BY <1>1, <1>7, <2>1, <2>2 DEF Undisturbed
    <3>2. \A q \in Runs : Adding(q, t)' => q = r
      BY <3>1, <1>3 DEF Adding, IInv, OwnChunks
    <3>3. t \in exists' /\ BeingBuilt(t)'
      BY <1>1, <1>3 DEF BeingBuilt
    <3>4. \A c \in Chunks : server'[t][c] =
             IF ChunkOf[c] = t /\ c \notin todo'[r] THEN 1 ELSE 0
      BY <1>1, <1>3, <3>1 DEF Pieces, Empty
    <3> QED
      BY <2>2, <3>2, <3>3, <3>4 DEF Undisturbed
  <2>3. CASE u # t
    <3>1. \A q \in Runs : Adding(q, u)' <=> Adding(q, u)
      BY <2>3, <1>3 DEF Adding
    <3>2. \A q \in Runs : Adding(q, u) => todo'[q] = todo[q]
      BY <2>3, <1>3 DEF Adding
    <3>3. u \in exists' <=> u \in exists
      BY <1>1, <2>3
    <3> QED
      BY <2>1, <2>3, <3>1, <3>2, <3>3, <1>1, <1>6 DEF Undisturbed
  <2> QED
    BY <2>2, <2>3
<1>8. ASSUME NEW q \in Runs PROVE InHand(q)'
  <2>1. CASE q = r
    BY <2>1, <1>3 DEF InHand
  <2>2. CASE q # r /\ TextOf[q] = t
    BY <2>2, <1>1, <1>3 DEF IInv, InHand
  <2>3. CASE q # r /\ TextOf[q] # t
    BY <2>3, <1>1, <1>3, <1>6, TextsAssumption DEF IInv, InHand
  <2> QED
    BY <2>1, <2>2, <2>3
<1>9. SearchIsExact'
  <2>1. disturbed \subseteq disturbed'
    BY <1>1
  <2> QED
    BY <1>1, <1>3, <2>1 DEF IInv, SearchIsExact
<1> QED
  BY <1>4, <1>5, <1>7, <1>8, <1>9 DEF IInv

LEMMA AddChunkInv == ASSUME IInv, NEW r \in Runs, AddChunk(r) PROVE IInv'
<1> DEFINE t == TextOf[r]
<1>1. PICK c \in todo[r] :
         /\ server' = [server EXCEPT ![t][c] = @ + 1]
         /\ todo' = [todo EXCEPT ![r] = @ \ {c}]
  BY DEF AddChunk, IndexName
<1>2. /\ stage[r] = "adding"
      /\ UNCHANGED <<mode, disk, exists, stage, held, seen, disturbed>>
  BY DEF AddChunk
<1>3. /\ t \in Texts /\ c \in Chunks /\ ChunkOf[c] = t
      /\ todo \in [Runs -> SUBSET Chunks] /\ server \in [Texts -> Copies]
  BY <1>2, TextsAssumption DEF IInv, TypeOK, OwnChunks, Pieces
<1>4. server[t] \in [Chunks -> Nat]
  BY <1>3 DEF Copies
<1>5. /\ \A u \in Texts : u # t => server'[u] = server[u]
      /\ \A d \in Chunks : d # c => server'[t][d] = server[t][d]
      /\ server'[t][c] = server[t][c] + 1
      /\ server'[t] \in [Chunks -> Nat]
      /\ \A q \in Runs : q # r => todo'[q] = todo[q]
      /\ todo'[r] = todo[r] \ {c}
  BY <1>1, <1>3, <1>4
<1>6. TypeOK'
  <2>1. server' \in [Texts -> Copies]
    BY <1>1, <1>3, <1>5 DEF Copies
  <2>2. todo' \in [Runs -> SUBSET Chunks]
    BY <1>1, <1>3
  <2> QED
    BY <1>2, <2>1, <2>2 DEF IInv, TypeOK
<1>7. OwnChunks'
  <2>1. ASSUME NEW u \in Texts, NEW d \in Chunks, ChunkOf[d] # u
        PROVE  server'[u][d] = 0
    BY <2>1, <1>3, <1>5 DEF IInv, OwnChunks
  <2>2. ASSUME NEW q \in Runs, stage'[q] = "adding"
        PROVE  TextOf[q] \in exists' /\ todo'[q] \subseteq Pieces(TextOf[q])
    BY <2>2, <1>2, <1>5 DEF IInv, OwnChunks
  <2> QED
    BY <2>1, <2>2 DEF OwnChunks
<1>8. ASSUME NEW u \in Texts, u \notin disturbed' PROVE Undisturbed(u)'
  <2>1. Undisturbed(u)
    BY <1>2, <1>8 DEF IInv
  <2>2. CASE u = t
    <3>1. Adding(r, t) /\ BeingBuilt(t) /\ t \in exists
      BY <1>2, <1>3 DEF Adding, BeingBuilt, IInv, OwnChunks
    <3>2. \A q \in Runs : Adding(q, t) => q = r
      BY <2>1, <2>2, <3>1 DEF Undisturbed
    <3>3. server[t][c] = 0
      BY <1>1, <1>3, <2>1, <2>2, <3>1 DEF Undisturbed
    <3>4. ASSUME NEW d \in Chunks
          PROVE  server'[t][d] =
                    IF ChunkOf[d] = t /\ d \notin todo'[r] THEN 1 ELSE 0
      <4>1. CASE d = c
        BY <4>1, <1>3, <1>5, <3>3
      <4>2. CASE d # c
        BY <4>2, <1>5, <2>1, <2>2, <3>1 DEF Undisturbed
      <4> QED
        BY <4>1, <4>2
    <3> QED
      BY <2>2, <3>1, <3>2, <3>4, <1>2 DEF Undisturbed, Adding, BeingBuilt
  <2>3. CASE u # t
    <3>1. \A q \in Runs : Adding(q, u) => todo'[q] = todo[q]
      BY <2>3, <1>5 DEF Adding
    <3> QED
      BY <2>1, <2>3, <3>1, <1>2, <1>5 DEF Undisturbed, Adding, BeingBuilt
  <2> QED
    BY <2>2, <2>3
<1>9. (\A q \in Runs : InHand(q)') /\ SearchIsExact'
  BY <1>2 DEF IInv, InHand, BeingBuilt, SearchIsExact
<1> QED
  BY <1>6, <1>7, <1>8, <1>9 DEF IInv

\* A build ends, well or not.
LEMMA BuildEnds ==
    ASSUME IInv, NEW r \in Runs, stage[r] = "adding",
           stage' = [stage EXCEPT ![r] = "built"],
           UNCHANGED <<mode, disk, exists, server, seen>>,
           \A q \in Runs : q # r => todo'[q] = todo[q],
           \A q \in Runs : q # r => held'[q] = held[q],
           todo' \in [Runs -> SUBSET Chunks],
           held' \in [Runs -> {"none", "own", "server"}],
           disturbed \subseteq disturbed', disturbed' \subseteq Texts,
           TextOf[r] \in disturbed' \/ (held'[r] = "server" /\ todo[r] = {})
    PROVE  IInv'
<1> DEFINE t == TextOf[r]
<1>1. t \in Texts /\ stage \in [Runs -> Stages]
  BY TextsAssumption DEF IInv, TypeOK
<1>2. stage'[r] = "built" /\ \A q \in Runs : q # r => stage'[q] = stage[q]
  BY <1>1
<1>3. TypeOK'
  <2>1. stage' \in [Runs -> Stages]
    BY <1>1 DEF Stages
  <2> QED
    BY <2>1 DEF IInv, TypeOK
<1>4. OwnChunks'
  BY <1>2 DEF IInv, OwnChunks
<1>5. \A u \in Texts : u # t => (BeingBuilt(u)' <=> BeingBuilt(u))
  BY <1>2 DEF BeingBuilt
<1>6. \A u \in Texts : BeingBuilt(u)' => BeingBuilt(u)
  BY <1>2 DEF BeingBuilt
<1>7. t \in exists
  BY DEF IInv, OwnChunks
<1>8. t \in disturbed' \/ (Undisturbed(t) /\ ~ BeingBuilt(t)' /\ server[t] = Once(t))
  <2> SUFFICES ASSUME t \notin disturbed'
               PROVE  Undisturbed(t) /\ ~ BeingBuilt(t)' /\ server[t] = Once(t)
    OBVIOUS
  <2>1. Undisturbed(t) /\ Adding(r, t)
    BY <1>1 DEF IInv, Adding
  <2>2. ~ BeingBuilt(t)'
    BY <1>2, <2>1 DEF Undisturbed, Adding, BeingBuilt
  <2>3. \A c \in Chunks : server[t][c] = Once(t)[c]
    BY <2>1 DEF Undisturbed, Once
  <2>4. server[t] = Once(t)
    <3>1. server[t] \in [Chunks -> Nat]
      BY <1>1 DEF IInv, TypeOK, Copies
    <3>2. Once(t) \in [Chunks -> Nat]
      BY DEF Once
    <3> QED
      BY <2>3, <3>1, <3>2
  <2> QED
    BY <2>1, <2>2, <2>4
<1>9. ASSUME NEW u \in Texts, u \notin disturbed' PROVE Undisturbed(u)'
  <2>1. Undisturbed(u)
    BY <1>9 DEF IInv
  <2>2. CASE u = t
    <3>1. \A q \in Runs : ~ Adding(q, t)'
      BY <1>8, <1>9, <2>2 DEF Adding, BeingBuilt
    <3> QED
      BY <2>2, <3>1, <1>7, <1>8, <1>9 DEF Undisturbed
  <2>3. CASE u # t
    <3>1. \A q \in Runs : Adding(q, u)' <=> Adding(q, u)
      BY <2>3, <1>2 DEF Adding
    <3>2. \A q \in Runs : Adding(q, u) => todo'[q] = todo[q]
      BY <2>3 DEF Adding
    <3> QED
      BY <2>1, <2>3, <3>1, <3>2, <1>5 DEF Undisturbed
  <2> QED
    BY <2>2, <2>3
<1>10. ASSUME NEW q \in Runs PROVE InHand(q)'
  <2>1. TextOf[q] \in Texts
    BY TextsAssumption
  <2>2. CASE q = r
    BY <2>2, <1>7, <1>8 DEF InHand
  <2>3. CASE q # r
    BY <2>1, <2>3, <1>2, <1>6 DEF IInv, InHand
  <2> QED
    BY <2>2, <2>3
<1>11. SearchIsExact'
  BY <1>2 DEF IInv, SearchIsExact
<1> QED
  BY <1>3, <1>4, <1>9, <1>10, <1>11 DEF IInv

LEMMA SearchInv == ASSUME IInv, NEW r \in Runs, Search(r) PROVE IInv'
<1> DEFINE t == TextOf[r]
<1>1. /\ stage[r] = "ready" /\ stage' = [stage EXCEPT ![r] = "searched"]
      /\ seen' = [seen EXCEPT ![r] = IF held[r] = "own" THEN Once(t)
                                                        ELSE server[t]]
      /\ UNCHANGED <<mode, disk, exists, server, held, todo, disturbed>>
  BY DEF Search, Enter, IndexName
<1>2. t \in Texts /\ stage \in [Runs -> Stages] /\ seen \in [Runs -> Copies]
      /\ server \in [Texts -> Copies]
  BY TextsAssumption DEF IInv, TypeOK
<1>3. /\ stage'[r] = "searched"
      /\ seen'[r] = IF held[r] = "own" THEN Once(t) ELSE server[t]
      /\ \A q \in Runs : q # r => stage'[q] = stage[q] /\ seen'[q] = seen[q]
  BY <1>1, <1>2
<1>4. TypeOK'
  <2>1. stage' \in [Runs -> Stages]
    BY <1>1, <1>2 DEF Stages
  <2>2. Once(t) \in Copies
    BY DEF Once, Copies
  <2>3. seen' \in [Runs -> Copies]
    BY <1>1, <1>2, <2>2
  <2> QED
    BY <1>1, <2>1, <2>3 DEF IInv, TypeOK
<1>5. \A q \in Runs : stage'[q] = "adding" <=> stage[q] = "adding"
  BY <1>1, <1>3
<1>6. \A u \in Texts : BeingBuilt(u)' <=> BeingBuilt(u)
  BY <1>5 DEF BeingBuilt
<1>7. OwnChunks'
  BY <1>1, <1>5 DEF IInv, OwnChunks
<1>8. \A u \in Texts : u \in disturbed' \/ Undisturbed(u)'
  BY <1>1, <1>5, <1>6 DEF IInv, Undisturbed, Adding
<1>9. \A q \in Runs : InHand(q)'
  BY <1>1, <1>3, <1>6, TextsAssumption DEF IInv, InHand
<1>10. SearchIsExact'
  <2> SUFFICES ASSUME NEW q \in Runs, stage'[q] = "searched"
               PROVE  /\ \A c \in Chunks : ChunkOf[c] # TextOf[q] => seen'[q][c] = 0
                      /\ held[q] = "own" \/ TextOf[q] \notin disturbed
                            => seen'[q] = Once(TextOf[q])
    BY <1>1 DEF SearchIsExact
  <2>1. CASE q = r
    <3>1. \A c \in Chunks : ChunkOf[c] # t => seen'[r][c] = 0
      BY <1>2, <1>3 DEF IInv, OwnChunks, Once
    <3>2. held[r] # "own" /\ t \notin disturbed => server[t] = Once(t)
      BY <1>1, <1>2 DEF IInv, InHand, Undisturbed
    <3> QED
      BY <2>1, <3>1, <3>2, <1>3
  <2>2. CASE q # r
    BY <2>2, <1>3 DEF IInv, SearchIsExact
  <2> QED
    BY <2>1, <2>2
<1> QED
  BY <1>4, <1>7, <1>8, <1>9, <1>10 DEF IInv

LEMMA CrashInv == ASSUME IInv, Crash PROVE IInv'
<1>1. /\ mode' \in Modes
      /\ stage' = [r \in Runs |-> IF stage[r] \in Ended \cup {"new"} THEN stage[r]
                                                                 ELSE "failed"]
      /\ disturbed' = disturbed \cup
            {TextOf[r] : r \in {r \in Runs : stage[r] = "adding"}}
      /\ UNCHANGED <<disk, exists, server, held, todo, seen>>
  BY DEF Crash
<1>2. stage \in [Runs -> Stages]
  BY DEF IInv, TypeOK
<1>3. \A r \in Runs : /\ stage'[r] \in {"new", "searched", "failed"}
                      /\ stage'[r] = "searched" => stage[r] = "searched"
  BY <1>1, <1>2 DEF Ended
<1>4. TypeOK'
  <2>1. stage' \in [Runs -> Stages]
    BY <1>1, <1>2 DEF Stages
  <2>2. disturbed' \subseteq Texts
    BY <1>1, TextsAssumption DEF IInv, TypeOK
  <2> QED
    BY <1>1, <2>1, <2>2 DEF IInv, TypeOK
<1>5. OwnChunks'
  BY <1>1, <1>3 DEF IInv, OwnChunks
<1>6. ASSUME NEW t \in Texts, t \notin disturbed' PROVE Undisturbed(t)'
  <2>1. Undisturbed(t) /\ ~ BeingBuilt(t)
    BY <1>1, <1>6 DEF IInv, BeingBuilt
  <2>2. \A r \in Runs : ~ Adding(r, t)'
    BY <1>3 DEF Adding
  <2> QED
    BY <2>1, <2>2, <1>1 DEF Undisturbed
<1>7. \A r \in Runs : InHand(r)'
  BY <1>3 DEF InHand
<1>8. SearchIsExact'
  BY <1>1, <1>3 DEF IInv, SearchIsExact
<1> QED
  BY <1>4, <1>5, <1>6, <1>7, <1>8 DEF IInv

-----------------------------------------------------------------------------
LEMMA ProceedInv == ASSUME IInv, NEW r \in Runs, Proceed(r) PROVE IInv'
<1> USE DEF Enter, Disturb, IndexName
<1>1. /\ TextOf[r] \in Texts /\ TypeOK /\ disturbed \subseteq Texts
      /\ held \in [Runs -> {"none", "own", "server"}]
      /\ disk \in [Texts -> Files]
      /\ todo \in [Runs -> SUBSET Chunks]
  BY TextsAssumption DEF IInv, TypeOK
<1>2. CASE LoadFromDisk(r)
  BY <1>1, <1>2, QuietStep DEF LoadFromDisk, Stages, Ended
<1>3. CASE LoadFromServer(r)
  <2>1. CASE BeingBuilt(TextOf[r])
    BY <1>1, <1>3, <2>1, QuietStep DEF LoadFromServer, Stages, Ended
  <2>2. CASE ~ BeingBuilt(TextOf[r])
    BY <1>1, <1>3, <2>2, QuietStep DEF LoadFromServer, Stages, Ended
  <2> QED
    BY <2>1, <2>2
<1>4. CASE LoadNothing(r)
  BY <1>1, <1>4, QuietStep DEF LoadNothing, Stages, Ended
<1>5. CASE BuildLocally(r)
  BY <1>1, <1>5, QuietStep DEF BuildLocally, Stages, Ended
<1>6. CASE CreateIndex(r)
  BY <1>6, CreateIndexInv
<1>7. CASE AddChunk(r)
  BY <1>7, AddChunkInv
<1>8. CASE FinishIndex(r)
  BY <1>1, <1>8, BuildEnds DEF FinishIndex, TypeOK
<1>9. CASE FallBack(r)
  <2>1. CASE stage[r] = "adding"
    <3>1. /\ todo' \in [Runs -> SUBSET Chunks]
          /\ \A q \in Runs : q # r => todo'[q] = todo[q] /\ held'[q] = held[q]
      BY <1>1, <1>9 DEF FallBack, TypeOK
    <3> QED
      BY <1>1, <1>9, <2>1, <3>1, BuildEnds DEF FallBack
  <2>2. CASE stage[r] = "missed"
    <3>1. /\ todo' \in [Runs -> SUBSET Chunks]
          /\ held' \in [Runs -> {"none", "own", "server"}]
          /\ held'[r] = "own"
          /\ \A q \in Runs : q # r => todo'[q] = todo[q] /\ held'[q] = held[q]
      BY <1>1, <1>9 DEF FallBack, TypeOK
    <3> QED
      BY <1>1, <1>9, <2>2, <3>1, QuietStep DEF FallBack, Stages, Ended
  <2> QED
    BY <1>9, <2>1, <2>2 DEF FallBack
<1>10. CASE SaveNothing(r)
  BY <1>1, <1>10, QuietStep DEF SaveNothing, Stages, Ended, IInv, InHand
<1>11. CASE StartSave(r)
  BY <1>1, <1>11, QuietStep DEF StartSave, Stages, Ended, IInv, InHand, Files
<1>12. CASE FinishSave(r)
  BY <1>1, <1>12, QuietStep DEF FinishSave, Stages, Ended, IInv, InHand, Files
<1>13. CASE SaveFails(r)
  BY <1>1, <1>13, QuietStep DEF SaveFails, Stages, Ended
<1>14. CASE Search(r)
  BY <1>14, SearchInv
<1>15. CASE SearchFails(r)
  BY <1>1, <1>15, QuietStep DEF SearchFails, Stages, Ended
<1> QED
  BY <1>2, <1>3, <1>4, <1>5, <1>6, <1>7, <1>8, <1>9, <1>10, <1>11, <1>12, <1>13,
     <1>14, <1>15 DEF Proceed

LEMMA NextInv == ASSUME IInv, [Next]_vars PROVE IInv'
<1>1. CASE UNCHANGED vars
  <2>1. TypeOK' /\ OwnChunks' /\ SearchIsExact'
    BY <1>1 DEF vars, IInv, TypeOK, OwnChunks, SearchIsExact
  <2>2. \A t \in Texts : t \in disturbed' \/ Undisturbed(t)'
    BY <1>1 DEF vars, IInv, Undisturbed, Adding, BeingBuilt
  <2>3. \A r \in Runs : InHand(r)'
    BY <1>1 DEF vars, IInv, InHand, BeingBuilt
  <2> QED
    BY <2>1, <2>2, <2>3 DEF IInv
<1> QED
  BY <1>1, CrashInv, ProceedInv DEF Next

\* The files, the server and the runs keep their types; a name that exists on
\* the server is the name of a text (embeddings.py).
THEOREM TypeCorrect == Spec => []TypeOK
<1>1. Init => IInv
  BY InitInv
<1>2. IInv /\ [Next]_vars => IInv'
  BY NextInv
<1>3. IInv => TypeOK
  BY DEF IInv
<1> QED
  BY <1>1, <1>2, <1>3, PTL DEF Spec

\* What a run sees of its document: nothing of another one's, everything if it
\* holds the index itself, and everything once if nobody disturbed the index.
THEOREM SearchExact == Spec => []SearchIsExact
<1>1. Init => IInv
  BY InitInv
<1>2. IInv /\ [Next]_vars => IInv'
  BY NextInv
<1>3. IInv => SearchIsExact
  BY DEF IInv
<1> QED
  BY <1>1, <1>2, <1>3, PTL DEF Spec

-----------------------------------------------------------------------------
(* Progress, without fairness.                                              *)

StageRank(s) ==
    IF s = "new" THEN 0 ELSE IF s = "missed" THEN 1 ELSE IF s = "adding" THEN 2
    ELSE IF s = "built" THEN 3 ELSE IF s = "saving" THEN 4
    ELSE IF s = "ready" THEN 5 ELSE 6

\* A run gets further, or adds one chunk more.
Advances(r) ==
    \/ StageRank(stage[r]) < StageRank(stage'[r])
    \/ /\ stage[r] = "adding" /\ stage'[r] = "adding"
       /\ \E c \in todo[r] : todo'[r] = todo[r] \ {c}

Rests(r) == stage'[r] = stage[r] /\ todo'[r] = todo[r]

Onward ==
    /\ \A r \in Runs : Proceed(r) => Advances(r)
    /\ \A r \in Runs : Rests(r) \/ Advances(r)

LEMMA ProceedAdvances ==
    ASSUME IInv, NEW r \in Runs, Proceed(r)
    PROVE  Advances(r) /\ \A q \in Runs : q # r => Rests(q)
<1>1. stage \in [Runs -> Stages] /\ todo \in [Runs -> SUBSET Chunks]
  BY DEF IInv, TypeOK
<1>2. ASSUME NEW s \in Stages, stage' = [stage EXCEPT ![r] = s],
             StageRank(stage[r]) < StageRank(s),
             \A q \in Runs : q # r => todo'[q] = todo[q]
      PROVE  Advances(r) /\ \A q \in Runs : q # r => Rests(q)
  BY <1>1, <1>2 DEF Advances, Rests
<1>3. CASE AddChunk(r)
  <2>1. PICK c \in todo[r] : todo' = [todo EXCEPT ![r] = todo[r] \ {c}]
    BY <1>3 DEF AddChunk
  <2>2. stage[r] = "adding" /\ stage' = stage
    BY <1>3 DEF AddChunk
  <2> QED
    BY <1>1, <2>1, <2>2 DEF Advances, Rests
<1>4. CASE LoadFromDisk(r)
  <2>1. stage[r] = "new" /\ stage' = [stage EXCEPT ![r] = "ready"] /\ todo' = todo
    BY <1>4 DEF LoadFromDisk, Enter
  <2> QED
    BY <2>1, <1>2 DEF Stages, StageRank
<1>5. CASE LoadFromServer(r)
  <2>1. stage[r] = "new" /\ stage' = [stage EXCEPT ![r] = "ready"] /\ todo' = todo
    BY <1>5 DEF LoadFromServer, Enter
  <2> QED
    BY <2>1, <1>2 DEF Stages, StageRank
<1>6. CASE LoadNothing(r)
  <2>1. stage[r] = "new" /\ stage' = [stage EXCEPT ![r] = "missed"] /\ todo' = todo
    BY <1>6 DEF LoadNothing, Enter
  <2> QED
    BY <2>1, <1>2 DEF Stages, StageRank
<1>7. CASE BuildLocally(r)
  <2>1. stage[r] = "missed" /\ stage' = [stage EXCEPT ![r] = "built"] /\ todo' = todo
    BY <1>7 DEF BuildLocally, Enter
  <2> QED
    BY <2>1, <1>2 DEF Stages, StageRank
<1>8. CASE CreateIndex(r)
  <2>1. /\ stage[r] = "missed" /\ stage' = [stage EXCEPT ![r] = "adding"]
        /\ \A q \in Runs : q # r => todo'[q] = todo[q]
    BY <1>1, <1>8 DEF CreateIndex, Enter
  <2> QED
    BY <2>1, <1>2 DEF Stages, StageRank
<1>9. CASE FinishIndex(r)
  <2>1. stage[r] = "adding" /\ stage' = [stage EXCEPT ![r] = "built"] /\ todo' = todo
    BY <1>9 DEF FinishIndex, Enter
  <2> QED
    BY <2>1, <1>2 DEF Stages, StageRank
<1>10. CASE FallBack(r)
  <2>1. /\ stage[r] \in {"missed", "adding"}
        /\ stage' = [stage EXCEPT ![r] = "built"]
        /\ \A q \in Runs : q # r => todo'[q] = todo[q]
    BY <1>1, <1>10 DEF FallBack, Enter
  <2> QED
    BY <2>1, <1>2 DEF Stages, StageRank
<1>11. CASE SaveNothing(r)
  <2>1. stage[r] = "built" /\ stage' = [stage EXCEPT ![r] = "ready"] /\ todo' = todo
    BY <1>11 DEF SaveNothing, Enter
  <2> QED
    BY <2>1, <1>2 DEF Stages, StageRank
<1>12. CASE StartSave(r)
  <2>1. stage[r] = "built" /\ stage' = [stage EXCEPT ![r] = "saving"] /\ todo' = todo
    BY <1>12 DEF StartSave, Enter
  <2> QED
    BY <2>1, <1>2 DEF Stages, StageRank
<1>13. CASE FinishSave(r) \/ SaveFails(r)
  <2>1. PICK s \in {"ready", "failed"} :
           stage[r] = "saving" /\ stage' = [stage EXCEPT ![r] = s] /\ todo' = todo
    BY <1>13 DEF FinishSave, SaveFails, Enter
  <2>2. s \in Stages /\ StageRank(stage[r]) < StageRank(s)
    BY <2>1 DEF Stages, StageRank
  <2> QED
    BY <2>1, <2>2, <1>2
<1>14. CASE Search(r) \/ SearchFails(r)
  <2>1. PICK s \in {"searched", "failed"} :
           stage[r] = "ready" /\ stage' = [stage EXCEPT ![r] = s] /\ todo' = todo
    BY <1>14 DEF Search, SearchFails, Enter
  <2>2. s \in Stages /\ StageRank(stage[r]) < StageRank(s)
    BY <2>1 DEF Stages, StageRank
  <2> QED
    BY <2>1, <2>2, <1>2
<1> QED
  BY <1>3, <1>4, <1>5, <1>6, <1>7, <1>8, <1>9, <1>10, <1>11, <1>12, <1>13, <1>14
     DEF Proceed

\* A run takes at most as many steps as there are stages, and one for each of
\* its chunks: nothing that the server, the files, another run or a crash does
\* sends a run back (load_index, build_index, save_index).
THEOREM RunsOnlyGoOn == Spec => [][Onward]_vars
<1>1. ASSUME IInv, Next PROVE Onward
  <2>1. CASE Crash
    <3>1. ASSUME NEW r \in Runs PROVE Rests(r) \/ Advances(r)
      <4>1. /\ stage'[r] = IF stage[r] \in Ended \cup {"new"} THEN stage[r] ELSE "failed"
            /\ todo' = todo /\ stage[r] \in Stages
        BY <1>1, <2>1 DEF Crash, IInv, TypeOK
      <4> QED
        BY <4>1 DEF Rests, Advances, StageRank, Stages, Ended
    <3> QED
      BY <1>1, <3>1, ProceedAdvances DEF Onward
  <2>2. ASSUME NEW q \in Runs, Proceed(q) PROVE Onward
    BY <1>1, <2>2, ProceedAdvances DEF Onward
  <2> QED
    BY <1>1, <2>1, <2>2 DEF Next
<1>2. IInv /\ [Next]_vars => [Onward]_vars
  BY <1>1
<1>3. Init => IInv
  BY InitInv
<1>4. IInv /\ [Next]_vars => IInv'
  BY NextInv
<1> QED
  BY <1>2, <1>3, <1>4, PTL DEF Spec

-----------------------------------------------------------------------------
(* Nobody waits for ever.                                                   *)

\* The guard of a step of run r that needs nothing of the server: build_index
\* falls back to FAISS and load_index finds nothing, if no call is answered.
HasItsOwnStep(r) ==
    \/ stage[r] = "saving"                                      \* FinishSave
    \/ stage[r] = "missed" /\ mode = "faiss"                    \* BuildLocally
    \/ stage[r] \in {"missed", "adding"} /\ mode = "opensearch" \* FallBack
    \/ /\ LoopIsFree
       /\ \/ /\ stage[r] = "new"                                \* LoadFromDisk
             /\ mode = "faiss" /\ disk[TextOf[r]] = "whole"
          \/ /\ stage[r] = "new"                                \* LoadNothing
             /\ mode = "faiss" => disk[TextOf[r]] # "whole"
          \/ stage[r] = "built" /\ mode = "opensearch"          \* SaveNothing
          \/ stage[r] = "built" /\ mode = "faiss"               \* StartSave
          \/ stage[r] = "ready" /\ held[r] = "own"              \* Search
          \/ stage[r] = "ready" /\ held[r] = "server"           \* SearchFails

HoldsTheLoop(r) == stage[r] = "saving"

\* One run at most holds the event loop, and nobody waits for anything else.
NeverStuck ==
    /\ \A r, s \in Runs : HoldsTheLoop(r) /\ HoldsTheLoop(s) => r = s
    /\ \A r \in Runs : stage[r] \notin Ended =>
          HasItsOwnStep(r) \/ \E s \in Runs : HoldsTheLoop(s)

\* A build on the server lasts no longer than VECTOR_STORE names the server, a
\* run past its build has an index in hand, and one run saves at a time.
Orderly ==
    /\ \A r \in Runs : stage[r] = "adding" => mode = "opensearch"
    /\ \A r \in Runs : stage[r] \in {"built", "saving", "ready"} => held[r] # "none"
    /\ \A r, s \in Runs : stage[r] = "saving" /\ stage[s] = "saving" => r = s

LEMMA ProceedStaysOrderly ==
    ASSUME IInv, Orderly, NEW r \in Runs, Proceed(r)
    PROVE  Orderly'
<1>1. stage \in [Runs -> Stages]
  BY DEF IInv, TypeOK
<1>2. mode' = mode
  BY DEF Proceed, LoadFromDisk, LoadFromServer, LoadNothing, BuildLocally,
         CreateIndex, AddChunk, FinishIndex, FallBack, SaveNothing, StartSave,
         FinishSave, SaveFails, Search, SearchFails
<1>3. \A q \in Runs : q # r => stage'[q] = stage[q]
  BY <1>1 DEF Enter, Proceed, LoadFromDisk, LoadFromServer, LoadNothing,
         BuildLocally, CreateIndex, AddChunk, FinishIndex, FallBack, SaveNothing,
         StartSave, FinishSave, SaveFails, Search, SearchFails
<1>4. stage'[r] = "adding" => mode = "opensearch"
  BY <1>1 DEF Orderly, Enter, Proceed, LoadFromDisk, LoadFromServer, LoadNothing,
         BuildLocally, CreateIndex, AddChunk, FinishIndex, FallBack, SaveNothing,
         StartSave, FinishSave, SaveFails, Search, SearchFails
<1>5. stage'[r] = "saving" => \A q \in Runs : q # r => stage[q] # "saving"
  BY <1>1 DEF LoopIsFree, Enter, Proceed, LoadFromDisk, LoadFromServer, LoadNothing,
         BuildLocally, CreateIndex, AddChunk, FinishIndex, FallBack, SaveNothing,
         StartSave, FinishSave, SaveFails, Search, SearchFails
<1>6. /\ \A q \in Runs : q # r => held'[q] = held[q]
      /\ stage'[r] \in {"built", "saving", "ready"} => held'[r] # "none"
  <2>1. held \in [Runs -> {"none", "own", "server"}]
    BY DEF IInv, TypeOK
  <2> QED
    BY <1>1, <2>1 DEF Orderly, Enter, Proceed, LoadFromDisk, LoadFromServer, LoadNothing,
         BuildLocally, CreateIndex, AddChunk, FinishIndex, FallBack, SaveNothing,
         StartSave, FinishSave, SaveFails, Search, SearchFails
<1> QED
  BY <1>2, <1>3, <1>4, <1>5, <1>6 DEF Orderly

\* A run that has not ended has a step of its own to take, whatever the server
\* answers, or waits for the one run whose save_index holds the event loop, and
\* that run can finish.  (With RunsOnlyGoOn, this is what RunsEnd rests on when
\* there are finitely many runs and chunks and the steps are fair.)
THEOREM RunsNeverStuck == Spec => []NeverStuck
<1>1. Init => IInv /\ Orderly
  <2>1. Init => Orderly
    BY DEF Init, Orderly
  <2> QED
    BY <2>1, InitInv
<1>2. ASSUME IInv, Orderly, [Next]_vars PROVE IInv' /\ Orderly'
  <2>1. CASE Crash
    <3>1. \A r \in Runs : stage'[r] \in {"new", "searched", "failed"}
      BY <2>1 DEF Crash, Ended
    <3> QED
      BY <3>1, <1>2, NextInv DEF Orderly
  <2>2. CASE UNCHANGED vars
    BY <2>2, <1>2, NextInv DEF vars, Orderly
  <2> QED
    BY <2>1, <2>2, <1>2, NextInv, ProceedStaysOrderly DEF Next
<1>3. ASSUME IInv, Orderly PROVE NeverStuck
  <2>1. ASSUME NEW r \in Runs, stage[r] \notin Ended, LoopIsFree
        PROVE  HasItsOwnStep(r)
    <3>1. /\ stage[r] \in Stages /\ mode \in Modes
          /\ held[r] \in {"none", "own", "server"}
      BY <1>3 DEF IInv, TypeOK
    <3> QED
      BY <1>3, <2>1, <3>1 DEF HasItsOwnStep, Orderly, Stages, Ended, Modes
  <2> QED
    BY <1>3, <2>1 DEF NeverStuck, Orderly, HoldsTheLoop, LoopIsFree
<1> QED
  BY <1>1, <1>2, <1>3, PTL DEF Spec

=============================================================================
