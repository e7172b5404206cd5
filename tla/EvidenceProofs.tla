---------------------------- MODULE EvidenceProofs ----------------------------
(***************************************************************************)
(* Proofs about Evidence, for any number of clauses, any chunks, budget,   *)
(* separator, least piece and excerpt: where there is room for a least     *)
(* piece of every best chunk, every best chunk gets one.                   *)
(*                                                                         *)
(* The argument is a count.  Pass 1 adds a best chunk whenever it is met   *)
(* for the first time.  Without a cap what it has used is at most the      *)
(* running total of sum(...), whose last value fits the budget; with one   *)
(* it is at most a piece per chunk in the prompt, and there are fewer of   *)
(* these than best chunks, of which all fit.  So pass 1 drops none, and    *)
(* nothing ever leaves the prompt.  A piece that is cut is cut to a fair   *)
(* share, which is an excerpt at least where an excerpt of every best      *)
(* chunk fits the budget: then the excerpts a report shows were all read.  *)
(*                                                                         *)
(* The last theorem is about the text of an HTML page.  The parser's depth *)
(* is the largest surplus of opening over closing tags that ends where it  *)
(* stands, which follows by induction along the page: LeastNumber, applied *)
(* to the parts at which it failed.                                        *)
(***************************************************************************)
EXTENDS Evidence, FiniteSetTheorems, WellFoundedInduction, TLAPS

\* How many clauses have been searched for.
Searched ==
    IF stage \in {"adding", "asked", "reported"} THEN Clauses ELSE at - 1

\* Nothing is found before the search, and nothing is added before its end.
Fresh ==
    /\ stage \in {"new", "refused", "received", "failed"} =>
          /\ at = 1
          /\ \A c \in 1..Clauses : ranked[c] = <<>>
    /\ stage \in {"new", "refused", "received", "failed", "searching"} =>
          /\ DOMAIN prompt = {}
          /\ used = 0
          /\ cap = NoCap
          /\ rank = 1
          /\ \A c \in 1..Clauses : evidence[c] = NoEvidence
    /\ stage \in {"asked", "adding"} =>
          \A c \in 1..Clauses : evidence[c] = NoEvidence

\* upto grows, and by its piece where a chunk is a best one for the first
\* time.
Totals ==
    /\ \A c, d \in 0..Clauses : c =< d /\ d =< Searched => upto[c] =< upto[d]
    /\ \A c \in 1..Clauses :
          c =< Searched /\ ranked[c] # <<>> /\ ranked[c][1] \notin Tops(c - 1)
             => upto[c] = upto[c - 1] + length[ranked[c][1]] + Sep

Pass1 ==
    stage = "adding" /\ rank = 1 =>
        /\ DOMAIN prompt \subseteq Tops(at - 1)
        /\ cap = NoCap =>
              /\ used =< upto[at - 1]
              /\ Tops(Clauses) = {} \/ upto[Clauses] =< Budget
        /\ cap # NoCap => used =< Cardinality(DOMAIN prompt) * (cap + Sep)
        /\ cap = NoCap \/ RoomForAll(MinPiece) =>
              Tops(at - 1) \subseteq DOMAIN prompt

Pass2 ==
    stage = "adding" /\ rank > 1 /\ RoomForAll(MinPiece) =>
        Tops(Clauses) \subseteq DOMAIN prompt

\* A piece is all of its chunk or a fair share.
Pieces ==
    /\ cap # NoCap => Tops(Clauses) # {} /\ cap = FairShare
    /\ \A chunk \in DOMAIN prompt :
          \/ prompt[chunk] = length[chunk]
          \/ cap # NoCap /\ prompt[chunk] = cap

IInv ==
    /\ TypeOK
    /\ IsFiniteSet(chunks)
    /\ Fresh
    /\ Totals
    /\ Pass1
    /\ Pass2
    /\ Pieces
    /\ EvidenceIsInPrompt

-----------------------------------------------------------------------------
(* Counting.                                                                *)

LEMMA OneMore ==
    ASSUME NEW a \in Nat, NEW b \in Nat, NEW c \in Nat, a + 1 =< b
    PROVE  a * c + c =< b * c
<1>1. PICK d \in Nat : b = a + 1 + d
  <2>1. b - (a + 1) \in Nat /\ b = a + 1 + (b - (a + 1))
    OBVIOUS
  <2> QED
    BY <2>1
<1>2. b * c = a * c + c + d * c
  BY <1>1
<1>3. d * c \in Nat /\ a * c \in Nat
  OBVIOUS
<1> QED
  BY <1>2, <1>3

LEMMA Quotient ==
    ASSUME NEW b \in Nat, NEW n \in Nat \ {0}
    PROVE  b \div n \in Nat /\ n * (b \div n) =< b
OBVIOUS

\* The share of n chunks is an excerpt at least if n excerpts fit.
LEMMA ShareIsExcerpt ==
    ASSUME NEW n \in Nat \ {0}, n * (Excerpt + Sep) =< Budget
    PROVE  /\ (Budget \div n) - Sep >= Excerpt
           /\ n * (MinPiece + Sep) =< Budget
<1> DEFINE q == Budget \div n
           e == Excerpt + Sep
           m == MinPiece + Sep
<1>1. q \in Nat /\ Budget < n * q + n /\ Budget \in Nat
  BY BudgetAssumption
<1>2. e \in Nat /\ m \in Nat /\ m =< e /\ n * e =< Budget
  BY BudgetAssumption
<1> HIDE DEF q, e, m
<1>3. q >= e
  <2> SUFFICES ASSUME q + 1 =< e PROVE FALSE
    BY <1>1, <1>2
  <2>1. PICK d \in Nat : e = q + 1 + d
    <3>1. e - (q + 1) \in Nat /\ e = q + 1 + (e - (q + 1))
      BY <1>1, <1>2
    <3> QED
      BY <3>1
  <2>2. n * e = n * q + n + n * d
    BY <1>1, <2>1
  <2>3. n * d \in Nat /\ n * q \in Nat
    BY <1>1
  <2> QED
    BY <1>1, <1>2, <2>2, <2>3
<1>4. n * m =< n * e
  <2>1. PICK d \in Nat : e = m + d
    <3>1. e - m \in Nat /\ e = m + (e - m)
      BY <1>2
    <3> QED
      BY <3>1
  <2>2. n * e = n * m + n * d
    BY <1>2, <2>1
  <2>3. n * d \in Nat /\ n * m \in Nat
    BY <1>2
  <2> QED
    BY <2>2, <2>3
<1>5. n * m \in Nat /\ n * e \in Nat
  BY <1>2
<1>6. n * m =< Budget
  BY <1>1, <1>2, <1>4, <1>5
<1>7. q - Sep >= Excerpt
  BY <1>1, <1>3, BudgetAssumption DEF e
<1> QED
  BY <1>6, <1>7 DEF q, m

\* The fair shares of n best chunks fit if n least pieces do.
LEMMA SharesFit ==
    ASSUME NEW n \in Nat \ {0}, n * (MinPiece + Sep) =< Budget, NEW s,
           s = IF (Budget \div n) - Sep < MinPiece THEN MinPiece
                                                 ELSE (Budget \div n) - Sep
    PROVE  s \in Nat /\ s # NoCap /\ n * (s + Sep) =< Budget
<1>1. Budget \div n \in Nat /\ n * (Budget \div n) =< Budget
  BY Quotient, BudgetAssumption
<1>2. CASE (Budget \div n) - Sep < MinPiece
  BY <1>2, BudgetAssumption DEF NoCap
<1>3. CASE ~ ((Budget \div n) - Sep < MinPiece)
  <2>1. s = (Budget \div n) - Sep /\ s >= MinPiece /\ s \in Nat
    BY <1>1, <1>3, BudgetAssumption
  <2>2. s + Sep = Budget \div n
    BY <1>1, <2>1, BudgetAssumption
  <2> QED
    BY <1>1, <2>1, <2>2, BudgetAssumption DEF NoCap
<1> QED
  BY <1>2, <1>3

LEMMA TopsGrow ==
    ASSUME TypeOK, NEW c \in 0..Clauses
    PROVE  /\ Tops(c) \subseteq Tops(Clauses)
           /\ Tops(c) \subseteq chunks
           /\ c > 0 => Tops(c) = Tops(c - 1) \cup
                          IF ranked[c] = <<>> THEN {} ELSE {ranked[c][1]}
           /\ Tops(0) = {}
<1>1. \A d \in 1..Clauses : ranked[d] \in Seq(chunks)
  BY DEF TypeOK
<1>2. \A d \in 1..Clauses : ranked[d] # <<>> => ranked[d][1] \in chunks
  BY <1>1
<1>3. Tops(c) \subseteq Tops(Clauses) /\ Tops(c) \subseteq chunks
      /\ Tops(0) = {}
  BY <1>2, ClausesAssumption DEF Tops
<1>4. ASSUME c > 0 PROVE 1..c = (1..c - 1) \cup {c}
  BY <1>4, ClausesAssumption
<1>5. c > 0 => Tops(c) = Tops(c - 1) \cup
                  IF ranked[c] = <<>> THEN {} ELSE {ranked[c][1]}
  BY <1>4 DEF Tops
<1> QED
  BY <1>3, <1>5

\* Where best chunks have room or are not cut, a best chunk that pass 1 meets
\* for the first time is added.
LEMMA BestIsAdded ==
    ASSUME IInv, stage = "adding", rank = 1, at =< Clauses,
           cap = NoCap \/ RoomForAll(MinPiece),
           ranked[at] # <<>>, ranked[at][1] \notin DOMAIN prompt
    PROVE  Adds
<1> DEFINE chunk == ranked[at][1]
           tops  == Tops(Clauses)
<1>0. /\ at \in 1..Clauses + 1
      /\ ranked \in [1..Clauses -> Seq(chunks)]
      /\ length \in [chunks -> Lengths]
  BY DEF IInv, TypeOK
<1>1. at \in 1..Clauses /\ at - 1 \in 0..Clauses /\ at \in 0..Clauses
  BY <1>0, ClausesAssumption
<1>2. ranked[at] \in Seq(chunks) /\ rank =< Len(ranked[at]) /\ chunk \in chunks
  BY <1>0, <1>1
<1>3. length[chunk] \in Nat /\ length[chunk] \in Lengths
  BY <1>0, <1>2, LengthsAssumption
<1> USE BudgetAssumption, ClausesAssumption
<1>4. /\ Tops(at - 1) \subseteq DOMAIN prompt
      /\ chunk \in tops
      /\ DOMAIN prompt \subseteq tops
      /\ tops \subseteq chunks
  <2>1. Tops(at - 1) \subseteq DOMAIN prompt
        /\ DOMAIN prompt \subseteq Tops(at - 1)
    BY DEF IInv, Pass1
  <2>2. Tops(at) \subseteq tops /\ Tops(at - 1) \subseteq tops
        /\ tops \subseteq chunks
    BY <1>1, TopsGrow DEF IInv
  <2>3. chunk \in Tops(at)
    BY <1>1 DEF Tops
  <2> QED
    BY <2>1, <2>2, <2>3
<1>5. used \in Nat /\ cap \in Nat
  BY DEF IInv, TypeOK
<1>6. CASE cap = NoCap
  <2>1. used =< upto[at - 1] /\ upto[Clauses] =< Budget
    BY <1>4, <1>6 DEF IInv, Pass1
  <2>2. upto[at] = upto[at - 1] + length[chunk] + Sep
    BY <1>1, <1>4 DEF IInv, Totals, Searched
  <2>3. upto[at] =< upto[Clauses]
    BY <1>1 DEF IInv, Totals, Searched
  <2>4. upto[at] \in Nat /\ upto[at - 1] \in Nat /\ upto[Clauses] \in Nat
    BY <1>1 DEF IInv, TypeOK
  <2>5. PieceLength(chunk) = length[chunk]
    BY <1>6 DEF PieceLength
  <2>6. used + length[chunk] + Sep =< Budget
    <3>1. used + length[chunk] + Sep =< upto[at]
      BY <1>3, <1>5, <2>1, <2>2, <2>4
    <3>2. used + length[chunk] + Sep \in Nat
      BY <1>3, <1>5
    <3> QED
      BY <2>1, <2>3, <2>4, <3>1, <3>2
  <2> QED
    BY <1>2, <2>5, <2>6 DEF Adds
<1>7. CASE cap # NoCap
  <2>1. IsFiniteSet(tops) /\ IsFiniteSet(DOMAIN prompt)
        /\ Cardinality(tops) \in Nat
        /\ Cardinality(DOMAIN prompt) \in Nat
    BY <1>4, FS_Subset, FS_CardinalityType DEF IInv, TypeOK
  <2>2. Cardinality(DOMAIN prompt) + 1 =< Cardinality(tops)
    <3>1. DOMAIN prompt \cup {chunk} \subseteq tops
      BY <1>4
    <3>2. Cardinality(DOMAIN prompt \cup {chunk})
             = Cardinality(DOMAIN prompt) + 1
      BY <2>1, FS_AddElement
    <3> QED
      BY <2>1, <3>1, <3>2, FS_Subset
  <2>3. used =< Cardinality(DOMAIN prompt) * (cap + Sep) /\ cap = FairShare
    BY <1>7 DEF IInv, Pass1, Pieces
  <2>4. Cardinality(tops) * (cap + Sep) =< Budget
    <3>1. Cardinality(tops) \in Nat \ {0}
      BY <2>1, <2>2
    <3>2. Cardinality(tops) * (MinPiece + Sep) =< Budget
      BY <1>7 DEF RoomForAll
    <3>3. cap = IF (Budget \div Cardinality(tops)) - Sep < MinPiece
                THEN MinPiece ELSE (Budget \div Cardinality(tops)) - Sep
      BY <2>3 DEF FairShare
    <3> HIDE DEF tops
    <3> QED
      BY <3>1, <3>2, <3>3, SharesFit
  <2>5. Cardinality(DOMAIN prompt) * (cap + Sep) + (cap + Sep)
           =< Cardinality(tops) * (cap + Sep)
    <3>1. cap + Sep \in Nat
      BY <1>5
    <3>2. /\ Cardinality(DOMAIN prompt) \in Nat
          /\ Cardinality(tops) \in Nat
          /\ Cardinality(DOMAIN prompt) + 1 =< Cardinality(tops)
      BY <2>1, <2>2
    <3> DEFINE c == cap + Sep
    <3> HIDE DEF tops, c
    <3>3. Cardinality(DOMAIN prompt) * c + c =< Cardinality(tops) * c
      BY <3>1, <3>2, OneMore DEF c
    <3> QED
      BY <3>3 DEF c
  <2>6. PieceLength(chunk) \in Nat /\ PieceLength(chunk) =< cap
    BY <1>3, <1>5, <1>7 DEF PieceLength
  <2>7. /\ Cardinality(DOMAIN prompt) * (cap + Sep) \in Nat
        /\ Cardinality(tops) * (cap + Sep) \in Nat
    <3> HIDE DEF tops
    <3> QED
      BY <1>5, <2>1
  <2>8. used + PieceLength(chunk) + Sep =< Budget
    <3> HIDE DEF tops, chunk
    <3> DEFINE a == Cardinality(DOMAIN prompt) * (cap + Sep)
               b == Cardinality(tops) * (cap + Sep)
    <3>1. a \in Nat /\ b \in Nat /\ used =< a /\ b =< Budget
          /\ a + (cap + Sep) =< b
      BY <2>3, <2>4, <2>5, <2>7
    <3> HIDE DEF a, b
    <3> QED
      BY <1>5, <2>6, <3>1
  <2> QED
    BY <1>2, <2>8 DEF Adds
<1> QED
  BY <1>6, <1>7

-----------------------------------------------------------------------------
(* Types.                                                                   *)

LEMMA ExtractedType ==
    ASSUME NEW f \in Uploads
    PROVE  ExtractText(f) \in SUBSET Nat
<1>1. f.parts \in Seq(Contents \cup Tags)
  BY UploadsAssumption DEF Files
<1>2. Len(f.parts) \in Nat /\ DOMAIN f.parts = 1..Len(f.parts)
  BY <1>1
<1>3. ExtractText(f) \subseteq DOMAIN f.parts
  BY DEF ExtractText, Truncated, PdfText, OfficeText, HtmlText, ImageText, With
<1> QED
  BY <1>2, <1>3

LEMMA FoundType ==
    ASSUME IsFiniteSet(chunks), NEW found \in Found
    PROVE  found \in Seq(chunks)
<1>1. Cardinality(chunks) \in Nat
  BY FS_CardinalityType
<1>2. Wanted \in Nat
  BY SearchAssumption DEF Wanted
<1>3. PICK n \in Nat : found \in [1..n -> chunks]
  BY <1>1, <1>2 DEF Found
<1> QED
  BY <1>3

LEMMA InitInv == ASSUME Init PROVE IInv
<1>1. TypeOK
  <2>1. /\ stage \in Stages /\ file = NoFile /\ text \subseteq Nat
        /\ index \in {"none", "own", "server"}
        /\ cap \in Nat /\ rank \in Nat \ {0} /\ at \in 1..Clauses + 1
        /\ used \in Nat
    BY ClausesAssumption DEF Init, Stages, NoCap
  <2>2. /\ chunks \subseteq Nat /\ length \in [chunks -> Lengths]
        /\ DOMAIN prompt \subseteq chunks /\ prompt \in [DOMAIN prompt -> Nat]
    BY DEF Init
  <2>3. /\ ranked \in [1..Clauses -> Seq(chunks)]
        /\ upto \in [0..Clauses -> Nat]
        /\ evidence \in [1..Clauses -> chunks \cup {NoEvidence}]
    BY DEF Init
  <2> QED
    BY <2>1, <2>2, <2>3 DEF TypeOK
<1>2. IsFiniteSet(chunks)
  BY FS_EmptySet DEF Init
<1>3. Fresh
  BY DEF Init, Fresh
<1>4. Totals
  BY ClausesAssumption DEF Init, Totals, Searched
<1>5. Pass1 /\ Pass2
  BY DEF Init, Pass1, Pass2
<1>6. Pieces /\ EvidenceIsInPrompt
  BY DEF Init, Pieces, EvidenceIsInPrompt
<1> QED
  BY <1>1, <1>2, <1>3, <1>4, <1>5, <1>6 DEF IInv

\* Steps between the stages, before there is an index.
LEMMA StageInv ==
    ASSUME IInv, stage \in {"new", "received"},
           stage' \in {"refused", "received", "failed"},
           file' = NoFile \/ file' \in Uploads, text' \in SUBSET Nat,
           UNCHANGED <<index, chunks, length, ranked, upto, cap, rank, at,
                       prompt, used, evidence>>
    PROVE  IInv'
<1>1. TypeOK' /\ IsFiniteSet(chunks')
  BY DEF IInv, TypeOK, Stages
<1>2. Fresh'
  BY DEF IInv, Fresh
<1>3. Totals'
  BY DEF IInv, Totals, Searched, Tops
<1>4. Pass1' /\ Pass2'
  BY DEF Pass1, Pass2
<1>5. Pieces' /\ EvidenceIsInPrompt'
  BY DEF IInv, Fresh, Pieces, EvidenceIsInPrompt
<1> QED
  BY <1>1, <1>2, <1>3, <1>4, <1>5 DEF IInv

LEMMA BuildIndexInv == ASSUME IInv, BuildIndex PROVE IInv'
<1>1. /\ stage = "received" /\ stage' = "searching" /\ file' = NoFile
      /\ text' = {} /\ index' \in {"own", "server"}
      /\ UNCHANGED <<ranked, upto, cap, rank, at, prompt, used, evidence>>
  BY DEF BuildIndex
<1>2. PICK n \in 0..MaxChunks : chunks' = 1..n /\ length' \in [1..n -> Lengths]
  BY DEF BuildIndex
<1>3. n \in Nat
  BY ChunksAssumption
<1>4. /\ DOMAIN prompt = {} /\ used = 0 /\ cap = NoCap /\ rank = 1 /\ at = 1
      /\ \A c \in 1..Clauses : ranked[c] = <<>> /\ evidence[c] = NoEvidence
  BY <1>1 DEF IInv, Fresh
<1>5. TypeOK'
  <2>1. chunks' \subseteq Nat /\ length' \in [chunks' -> Lengths]
    BY <1>2, <1>3
  <2>2. ranked' \in [1..Clauses -> Seq(chunks')]
    <3>1. ranked \in [1..Clauses -> Seq(chunks)]
      BY DEF IInv, TypeOK
    <3>2. <<>> \in Seq(chunks')
      OBVIOUS
    <3>3. \A c \in 1..Clauses : ranked[c] \in Seq(chunks')
      BY <1>4, <3>2
    <3> QED
      BY <1>1, <3>1, <3>3
  <2>3. evidence' \in [1..Clauses -> chunks' \cup {NoEvidence}]
    BY <1>1, <1>4 DEF IInv, TypeOK
  <2>4. DOMAIN prompt' \subseteq chunks' /\ prompt' \in [DOMAIN prompt' -> Nat]
    BY <1>1, <1>4 DEF IInv, TypeOK
  <2> QED
    BY <1>1, <2>1, <2>2, <2>3, <2>4 DEF IInv, TypeOK, Stages
<1>6. IsFiniteSet(chunks')
  BY <1>2, <1>3, FS_Interval
<1>7. Fresh'
  BY <1>1, <1>4 DEF Fresh
<1>8. Totals'
  BY <1>1, <1>4, ClausesAssumption DEF Totals, Searched, Tops, IInv, TypeOK
<1>9. Pass1' /\ Pass2'
  BY <1>1 DEF Pass1, Pass2
<1>10. Pieces' /\ EvidenceIsInPrompt'
  BY <1>1, <1>4 DEF Pieces, EvidenceIsInPrompt
<1> QED
  BY <1>5, <1>6, <1>7, <1>8, <1>9, <1>10 DEF IInv

LEMMA SearchInv == ASSUME IInv, Search PROVE IInv'
<1> USE ClausesAssumption
<1>1. PICK found \in Found :
         /\ ranked' = [ranked EXCEPT ![at] = found]
         /\ upto' = [upto EXCEPT ![at] =
               upto[at - 1] + IF found = <<>> \/ found[1] \in Tops(at - 1)
                              THEN 0 ELSE length[found[1]] + Sep]
  BY DEF Search
<1>2. /\ stage = "searching" /\ at =< Clauses /\ at' = at + 1
      /\ UNCHANGED <<stage, file, text, index, chunks, length, cap, rank,
                     prompt, used, evidence>>
  BY DEF Search
<1>3. found \in Seq(chunks) /\ (found # <<>> => found[1] \in chunks)
  BY FoundType DEF IInv
<1>12. \A chunk \in chunks : length[chunk] \in Nat
  <2>1. length \in [chunks -> Lengths]
    BY DEF IInv, TypeOK
  <2> QED
    BY <2>1, LengthsAssumption
<1>4. at \in 1..Clauses /\ at - 1 \in 0..Clauses /\ at \in 0..Clauses
  BY <1>2 DEF IInv, TypeOK
<1>5. PICK plus \in Nat :
         /\ upto' = [upto EXCEPT ![at] = upto[at - 1] + plus]
         /\ found # <<>> /\ found[1] \notin Tops(at - 1)
               => plus = length[found[1]] + Sep
  <2>1. found # <<>> => length[found[1]] + Sep \in Nat
    BY <1>3, <1>12, BudgetAssumption
  <2> QED
    BY <1>1, <2>1
<1>6. /\ ranked \in [1..Clauses -> Seq(chunks)]
      /\ upto \in [0..Clauses -> Nat]
  BY DEF IInv, TypeOK
<1>7. /\ ranked'[at] = found
      /\ \A c \in 1..Clauses : c # at => ranked'[c] = ranked[c]
      /\ upto'[at] = upto[at - 1] + plus
      /\ \A c \in 0..Clauses : c # at => upto'[c] = upto[c]
  BY <1>1, <1>4, <1>5, <1>6
<1>8. TypeOK'
  <2>1. ranked' \in [1..Clauses -> Seq(chunks')]
    BY <1>1, <1>2, <1>3, <1>4, <1>6
  <2>2. upto' \in [0..Clauses -> Nat]
    <3>1. upto[at - 1] + plus \in Nat
      BY <1>4, <1>6
    <3> QED
      BY <1>5, <1>6, <3>1
  <2>3. at' \in 1..Clauses + 1
    BY <1>2, <1>4
  <2> QED
    BY <1>2, <2>1, <2>2, <2>3 DEF IInv, TypeOK
<1>9. Fresh'
  BY <1>2 DEF IInv, Fresh
<1>10. Totals'
  <2>1. Searched = at - 1 /\ Searched' = at
    BY <1>2, <1>4 DEF Searched
  <2>2. \A c \in 0..Clauses : c < at => upto[c] =< upto[at - 1]
    BY <1>4, <2>1 DEF IInv, Totals
  <2>3. \A c, d \in 0..Clauses : c =< d /\ d =< at => upto'[c] =< upto'[d]
    <3> SUFFICES ASSUME NEW c \in 0..Clauses, NEW d \in 0..Clauses, c =< d,
                        d =< at
                 PROVE  upto'[c] =< upto'[d]
      OBVIOUS
    <3>1. CASE d < at
      BY <3>1, <1>4, <1>7, <2>1 DEF IInv, Totals
    <3>2. CASE d = at /\ c < at
      <4>1. upto'[c] = upto[c] /\ upto'[d] = upto[at - 1] + plus
        BY <3>2, <1>7
      <4>2. upto[c] =< upto[at - 1]
        BY <3>2, <2>2
      <4>3. upto[c] \in Nat /\ upto[at - 1] \in Nat
        BY <1>4, <1>6
      <4> QED
        BY <4>1, <4>2, <4>3
    <3>3. CASE d = at /\ c = at
      BY <3>3, <1>4, <1>5, <1>6, <1>7
    <3> QED
      BY <3>1, <3>2, <3>3, <1>4
  <2>4. \A c \in 1..at : Tops(c - 1)' = Tops(c - 1)
    BY <1>4, <1>7 DEF Tops
  <2>5. ASSUME NEW c \in 1..Clauses, c =< at, ranked'[c] # <<>>,
               ranked'[c][1] \notin Tops(c - 1)'
        PROVE  upto'[c] = upto'[c - 1] + length'[ranked'[c][1]] + Sep
    <3>1. CASE c = at
      <4>1. found # <<>> /\ found[1] \notin Tops(at - 1)
        BY <3>1, <2>4, <2>5, <1>7
      <4>2. upto'[at] = upto[at - 1] + length[found[1]] + Sep
        <5>1. length[found[1]] \in Nat /\ upto[at - 1] \in Nat
          BY <4>1, <1>3, <1>4, <1>6, <1>12
        <5> QED
          BY <5>1, <4>1, <1>5, <1>7, BudgetAssumption
      <4>3. upto'[at - 1] = upto[at - 1]
        BY <1>4, <1>7
      <4> QED
        BY <3>1, <4>2, <4>3, <1>2, <1>7
    <3>2. CASE c < at
      BY <3>2, <2>1, <2>4, <2>5, <1>2, <1>4, <1>7 DEF IInv, Totals
    <3> QED
      BY <3>1, <3>2, <2>5, <1>4
  <2> QED
    BY <2>1, <2>3, <2>5 DEF Totals
<1>11. Pass1' /\ Pass2' /\ EvidenceIsInPrompt'
  BY <1>2 DEF Pass1, Pass2, EvidenceIsInPrompt
<1>13. Pieces'
  BY <1>2 DEF IInv, Fresh, Pieces
<1> QED
  BY <1>2, <1>8, <1>9, <1>10, <1>11, <1>13 DEF IInv

LEMMA AskWithAllInv == ASSUME IInv, AskWithAll PROVE IInv'
<1> USE ClausesAssumption
<1>1. FoundChunks \subseteq chunks /\ Tops(Clauses) \subseteq FoundChunks
  <2>1. \A c \in 1..Clauses : ranked[c] \in Seq(chunks)
    BY DEF IInv, TypeOK
  <2>2. \A c \in 1..Clauses : ranked[c] # <<>> => 1 \in DOMAIN ranked[c]
    BY <2>1
  <2> QED
    BY <2>1, <2>2 DEF FoundChunks, Tops
<1>7. /\ stage = "searching" /\ stage' = "asked" /\ at > Clauses
      /\ prompt' = [chunk \in FoundChunks |-> length[chunk]]
      /\ UNCHANGED <<file, text, index, chunks, length, ranked, upto, cap, rank,
                     at, used, evidence>>
  BY DEF AskWithAll
<1>2. TypeOK' /\ IsFiniteSet(chunks')
  <2>1. \A chunk \in FoundChunks : length[chunk] \in Nat
    BY <1>1, LengthsAssumption DEF IInv, TypeOK
  <2>2. DOMAIN prompt' \subseteq chunks /\ prompt' \in [DOMAIN prompt' -> Nat]
    BY <1>1, <1>7, <2>1
  <2> QED
    BY <1>7, <2>2 DEF IInv, TypeOK, Stages
<1>3. Fresh'
  BY <1>7 DEF IInv, Fresh
<1>4. Totals'
  <2>1. Searched = Clauses /\ Searched' = Clauses
    BY DEF AskWithAll, IInv, TypeOK, Searched
  <2>2. Totals
    BY DEF IInv
  <2> QED
    BY <2>1, <2>2 DEF AskWithAll, Totals, Tops
<1>5. Pass1'
  BY DEF AskWithAll, Pass1
<1>6. Pass2' /\ EvidenceIsInPrompt'
  <2>1. Tops(Clauses)' = Tops(Clauses)
    BY <1>7 DEF Tops
  <2> QED
    BY <1>1, <1>7, <2>1 DEF Pass2, EvidenceIsInPrompt
<1>8. Pieces'
  BY <1>7 DEF IInv, Fresh, Pieces
<1> QED
  BY <1>2, <1>3, <1>4, <1>5, <1>6, <1>8 DEF IInv

LEMMA ChooseCapInv == ASSUME IInv, ChooseCap PROVE IInv'
<1> USE ClausesAssumption
<1>1. /\ stage = "searching" /\ at > Clauses /\ stage' = "adding" /\ at' = 1
      /\ cap' = IF Tops(Clauses) # {} /\ upto[Clauses] > Budget THEN FairShare
                                                             ELSE NoCap
      /\ UNCHANGED <<file, text, index, chunks, length, ranked, upto, rank,
                     prompt, used,
                     evidence>>
  BY DEF ChooseCap
<1>2. DOMAIN prompt = {} /\ used = 0 /\ rank = 1
  BY <1>1 DEF IInv, Fresh
<1>3. /\ \A c \in 0..Clauses : Tops(c)' = Tops(c)
      /\ FairShare' = FairShare
  BY <1>1 DEF Tops, FairShare
<1>4. cap' \in Nat /\ (cap' # NoCap => cap' = FairShare /\ Tops(Clauses) # {})
  <2>1. CASE Tops(Clauses) # {} /\ upto[Clauses] > Budget
    <3>1. Cardinality(Tops(Clauses)) \in Nat \ {0}
      <4>1. IsFiniteSet(Tops(Clauses))
        BY TopsGrow, FS_Subset DEF IInv
      <4> QED
        BY <2>1, <4>1, FS_CardinalityType, FS_EmptySet
    <3> DEFINE n == Cardinality(Tops(Clauses))
    <3>2. FairShare \in Nat
      <4> HIDE DEF n
      <4>1. Budget \div n \in Nat
        BY <3>1, Quotient, BudgetAssumption DEF n
      <4> QED
        BY <4>1, BudgetAssumption DEF FairShare, n
    <3> QED
      BY <1>1, <2>1, <3>2
  <2>2. CASE ~ (Tops(Clauses) # {} /\ upto[Clauses] > Budget)
    BY <1>1, <2>2 DEF NoCap
  <2> QED
    BY <2>1, <2>2
<1>5. TypeOK' /\ IsFiniteSet(chunks')
  BY <1>1, <1>4 DEF IInv, TypeOK, Stages
<1>6. Fresh'
  BY <1>1 DEF IInv, Fresh
<1>7. Totals'
  <2>1. Searched = Clauses /\ Searched' = Clauses
    BY <1>1 DEF IInv, TypeOK, Searched
  <2>2. Totals
    BY DEF IInv
  <2> QED
    BY <1>1, <2>1, <2>2 DEF Totals, Tops
<1>8. Pass1'
  <2>1. Tops(0)' = {} /\ at' - 1 = 0
    BY <1>1 DEF Tops
  <2>2. cap' = NoCap => Tops(Clauses) = {} \/ upto[Clauses] =< Budget
    <3>1. CASE Tops(Clauses) # {} /\ upto[Clauses] > Budget
      <4>1. cap' = FairShare /\ FairShare # NoCap
        BY <1>1, <3>1, BudgetAssumption, <1>4 DEF FairShare, NoCap
      <4> QED
        BY <4>1
    <3>2. CASE ~ (Tops(Clauses) # {} /\ upto[Clauses] > Budget)
      BY <3>2, BudgetAssumption DEF IInv, TypeOK
    <3> QED
      BY <3>1, <3>2
  <2>3. used =< upto[0] /\ used =< Cardinality(DOMAIN prompt) * (cap' + Sep)
    <3>1. upto[0] \in Nat
      BY DEF IInv, TypeOK
    <3>2. Cardinality(DOMAIN prompt) = 0
      BY <1>2, FS_EmptySet
    <3> QED
      BY <1>2, <1>4, <3>1, <3>2, BudgetAssumption
  <2> QED
    BY <1>1, <1>2, <1>3, <1>4, <2>1, <2>2, <2>3 DEF Pass1
<1>9. Pass2' /\ EvidenceIsInPrompt'
  BY <1>1, <1>2 DEF Pass2, EvidenceIsInPrompt
<1>10. Pieces'
  BY <1>1, <1>2, <1>3, <1>4, ClausesAssumption DEF Pieces
<1> QED
  BY <1>5, <1>6, <1>7, <1>8, <1>9, <1>10 DEF IInv

\* While pieces are added, what was found stays.
LEMMA AddingFrame ==
    ASSUME IInv, stage = "adding", stage' \in {"adding", "asked"},
           UNCHANGED <<file, text, index, chunks, length, ranked, upto, cap,
                       evidence>>
    PROVE  /\ Fresh'
           /\ Totals'
           /\ IsFiniteSet(chunks')
           /\ \A c \in 0..Clauses : Tops(c)' = Tops(c)
           /\ FairShare' = FairShare
           /\ RoomForAll(MinPiece)' = RoomForAll(MinPiece)
<1>1. Fresh'
  BY DEF IInv, Fresh
<1>2. Totals'
  BY DEF IInv, Totals, Searched, Tops
<1> QED
  BY <1>1, <1>2 DEF IInv, Tops, FairShare, RoomForAll

LEMMA AddInv == ASSUME IInv, Add PROVE IInv'
<1> USE ClausesAssumption
<1> DEFINE chunk == ranked[at][rank]
<1>1. /\ stage = "adding" /\ at =< Clauses /\ Adds
      /\ stage' = "adding" /\ at' = at + 1
      /\ prompt' = [d \in DOMAIN prompt \cup {chunk} |->
                      IF d \in DOMAIN prompt THEN prompt[d] ELSE PieceLength(d)]
      /\ DOMAIN prompt' = DOMAIN prompt \cup {chunk}
      /\ used' = used + PieceLength(chunk) + Sep
      /\ UNCHANGED <<file, text, index, chunks, length, ranked, upto, cap,
                     rank, evidence>>
  BY DEF Add
<1>2. /\ Fresh' /\ Totals' /\ IsFiniteSet(chunks')
      /\ \A c \in 0..Clauses : Tops(c)' = Tops(c)
      /\ FairShare' = FairShare
      /\ RoomForAll(MinPiece)' = RoomForAll(MinPiece)
  BY <1>1, AddingFrame
<1>3. /\ at \in 1..Clauses /\ at \in 0..Clauses /\ at - 1 \in 0..Clauses
      /\ rank \in Nat \ {0} /\ used \in Nat /\ cap \in Nat
      /\ DOMAIN prompt \subseteq chunks
  BY <1>1 DEF IInv, TypeOK
<1>4. chunk \in chunks /\ chunk \notin DOMAIN prompt /\ ranked[at] # <<>>
  <2>1. ranked[at] \in Seq(chunks)
    BY <1>3 DEF IInv, TypeOK
  <2> QED
    BY <1>1, <1>3, <2>1 DEF Adds
<1>5. length[chunk] \in Nat /\ PieceLength(chunk) \in Nat
  <2>1. length \in [chunks -> Lengths]
    BY DEF IInv, TypeOK
  <2> QED
    BY <1>3, <1>4, <2>1, LengthsAssumption DEF PieceLength
<1>6. TypeOK'
  <2>1. /\ DOMAIN prompt' \subseteq chunks' /\ used' \in Nat
        /\ at' \in 1..Clauses + 1
    <3>1. chunks' = chunks
      BY <1>1
    <3>2. DOMAIN prompt' \subseteq chunks'
      BY <1>1, <1>3, <1>4, <3>1, Zenon
    <3>3. used' \in Nat
      BY <1>1, <1>3, <1>5, BudgetAssumption
    <3>4. at' \in 1..Clauses + 1
      BY <1>1, <1>3
    <3> QED
      BY <3>2, <3>3, <3>4
  <2>2. stage' \in Stages
    BY <1>1 DEF Stages
  <2>3. prompt' \in [DOMAIN prompt' -> Nat]
    <3>1. \A d \in DOMAIN prompt : prompt[d] \in Nat
      BY DEF IInv, TypeOK
    <3> HIDE DEF chunk
    <3> QED
      BY <1>1, <1>5, <3>1
  <2> QED
    BY <1>1, <2>1, <2>2, <2>3 DEF IInv, TypeOK
<1>7. Pass1'
  <2> SUFFICES ASSUME rank = 1
               PROVE  /\ DOMAIN prompt' \subseteq Tops(at)
                      /\ cap = NoCap =>
                            /\ used' =< upto[at]
                            /\ Tops(Clauses) = {} \/ upto[Clauses] =< Budget
                      /\ cap # NoCap =>
                            used' =< Cardinality(DOMAIN prompt') * (cap + Sep)
                      /\ cap = NoCap \/ RoomForAll(MinPiece) =>
                            Tops(at) \subseteq DOMAIN prompt'
    <3>1. at' - 1 = at /\ Tops(Clauses)' = Tops(Clauses)
      BY <1>1, <1>2, <1>3
    <3>2. (Tops(at - 1))' = Tops(at)
      BY <1>1, <1>2, <1>3 DEF Tops
    <3> QED
      BY <1>1, <1>2, <3>1, <3>2 DEF Pass1
  <2>1. Pass1
    BY DEF IInv
  <2>2. Tops(at) = Tops(at - 1) \cup {chunk}
    BY <1>3, <1>4, TopsGrow DEF IInv
  <2>3. ASSUME cap = NoCap PROVE used' =< upto[at]
    <3>1. upto[at - 1] \in Nat /\ upto[at] \in Nat
      BY <1>3 DEF IInv, TypeOK
    <3>2. chunk \notin Tops(at - 1)
      BY <1>1, <1>4, <2>1, <2>3 DEF Pass1
    <3>3. upto[at] = upto[at - 1] + length[chunk] + Sep
      BY <1>1, <1>3, <1>4, <3>2 DEF IInv, Totals, Searched
    <3>4. PieceLength(chunk) = length[chunk]
      BY <2>3 DEF PieceLength
    <3> HIDE DEF chunk
    <3> QED
      BY <1>1, <1>3, <1>5, <2>1, <2>3, <3>1, <3>3, <3>4, BudgetAssumption
      DEF Pass1
  <2>4. ASSUME cap # NoCap
        PROVE  used' =< Cardinality(DOMAIN prompt') * (cap + Sep)
    <3>1. /\ IsFiniteSet(DOMAIN prompt)
          /\ Cardinality(DOMAIN prompt) \in Nat
          /\ Cardinality(DOMAIN prompt') = Cardinality(DOMAIN prompt) + 1
      BY <1>1, <1>3, <1>4, FS_Subset, FS_CardinalityType, FS_AddElement DEF IInv
    <3>2. PieceLength(chunk) =< cap
      BY <1>3, <1>5, <2>4 DEF PieceLength
    <3>3. used =< Cardinality(DOMAIN prompt) * (cap + Sep)
      BY <1>1, <2>1, <2>4 DEF Pass1
    <3>4. (Cardinality(DOMAIN prompt) + 1) * (cap + Sep)
             = Cardinality(DOMAIN prompt) * (cap + Sep) + (cap + Sep)
      BY <1>3, <3>1, BudgetAssumption
    <3>5. Cardinality(DOMAIN prompt) * (cap + Sep) \in Nat
      BY <1>3, <3>1, BudgetAssumption
    <3> DEFINE a == Cardinality(DOMAIN prompt) * (cap + Sep)
    <3> HIDE DEF chunk, a
    <3>6. used' =< a + (cap + Sep)
      BY <1>1, <1>3, <1>5, <3>2, <3>3, <3>5, BudgetAssumption DEF a
    <3> QED
      BY <3>1, <3>4, <3>6 DEF a
  <2> QED
    BY <1>1, <2>1, <2>2, <2>3, <2>4 DEF Pass1
<1>8. Pass2' /\ EvidenceIsInPrompt'
  <2>1. EvidenceIsInPrompt'
    BY <1>1 DEF EvidenceIsInPrompt
  <2>2. RoomForAll(MinPiece) /\ rank > 1 =>
           Tops(Clauses) \subseteq DOMAIN prompt'
    BY <1>1 DEF IInv, Pass2
  <2>3. RoomForAll(MinPiece)' = RoomForAll(MinPiece)
        /\ Tops(Clauses)' = Tops(Clauses)
    BY <1>2
  <2> QED
    BY <1>1, <2>1, <2>2, <2>3 DEF Pass2
<1>9. Pieces'
  <2>1. Pieces
    BY DEF IInv
  <2>2. \/ PieceLength(chunk) = length[chunk]
        \/ cap # NoCap /\ PieceLength(chunk) = cap
    BY DEF PieceLength
  <2>3. cap' # NoCap => Tops(Clauses)' # {} /\ cap' = FairShare'
    BY <1>1, <1>2, <2>1 DEF Pieces
  <2> HIDE DEF chunk
  <2>4. \A d \in DOMAIN prompt' :
           \/ prompt'[d] = length[d]
           \/ cap # NoCap /\ prompt'[d] = cap
    BY <1>1, <2>1, <2>2 DEF Pieces
  <2> QED
    BY <1>1, <2>3, <2>4 DEF Pieces
<1> QED
  BY <1>2, <1>6, <1>7, <1>8, <1>9 DEF IInv

LEMMA SkipInv == ASSUME IInv, Skip PROVE IInv'
<1> USE ClausesAssumption
<1>1. /\ stage = "adding" /\ at =< Clauses /\ ~ Adds
      /\ stage' = "adding" /\ at' = at + 1
      /\ UNCHANGED <<file, text, index, chunks, length, ranked, upto, cap,
                     rank, prompt, used,
                     evidence>>
  BY DEF Skip
<1>2. /\ Fresh' /\ Totals' /\ IsFiniteSet(chunks')
      /\ \A c \in 0..Clauses : Tops(c)' = Tops(c)
      /\ FairShare' = FairShare
      /\ RoomForAll(MinPiece)' = RoomForAll(MinPiece)
  BY <1>1, AddingFrame
<1>3. at \in 1..Clauses /\ at \in 0..Clauses /\ at - 1 \in 0..Clauses
  BY <1>1 DEF IInv, TypeOK
<1>4. TypeOK'
  <2>1. at' \in 1..Clauses + 1
    BY <1>1, <1>3
  <2>2. stage' \in Stages
    BY <1>1 DEF Stages
  <2>3. TypeOK
    BY DEF IInv
  <2> HIDE ClausesAssumption
  <2> QED
    BY <1>1, <2>1, <2>2, <2>3 DEF TypeOK
<1>5. Pass1'
  <2> SUFFICES ASSUME rank = 1
               PROVE  /\ DOMAIN prompt \subseteq Tops(at)
                      /\ cap = NoCap => used =< upto[at]
                      /\ cap = NoCap \/ RoomForAll(MinPiece) =>
                            Tops(at) \subseteq DOMAIN prompt
    <3>1. (Tops(at - 1))' = Tops(at)
      BY <1>1, <1>2, <1>3 DEF Tops
    <3>2. at' - 1 = at /\ Tops(Clauses)' = Tops(Clauses)
      BY <1>1, <1>2, <1>3
    <3> QED
      BY <1>1, <1>2, <3>1, <3>2 DEF Pass1, IInv
  <2>1. Pass1
    BY DEF IInv
  <2>2. Tops(at) = Tops(at - 1) \cup IF ranked[at] = <<>> THEN {}
                                                         ELSE {ranked[at][1]}
    BY <1>3, TopsGrow DEF IInv
  <2>3. cap = NoCap => used =< upto[at]
    <3>1. upto[at - 1] =< upto[at] /\ upto[at - 1] \in Nat /\ upto[at] \in Nat
      <4>1. Searched = Clauses
        BY <1>1 DEF Searched
      <4> QED
        BY <1>1, <1>3, <4>1 DEF IInv, TypeOK, Totals
    <3>2. used \in Nat
      BY DEF IInv, TypeOK
    <3> QED
      BY <1>1, <2>1, <3>1, <3>2 DEF Pass1
  <2>4. ASSUME cap = NoCap \/ RoomForAll(MinPiece)
        PROVE  Tops(at) \subseteq DOMAIN prompt
    <3>1. ranked[at] = <<>> \/ ranked[at][1] \in DOMAIN prompt
      BY <1>1, <2>4, BestIsAdded
    <3> QED
      BY <1>1, <2>1, <2>2, <2>4, <3>1 DEF Pass1
  <2> QED
    BY <1>1, <2>1, <2>2, <2>3, <2>4 DEF Pass1
<1>6. Pass2' /\ EvidenceIsInPrompt'
  <2>1. EvidenceIsInPrompt'
    BY <1>1 DEF EvidenceIsInPrompt
  <2>2. RoomForAll(MinPiece) /\ rank > 1 =>
           Tops(Clauses) \subseteq DOMAIN prompt
    BY <1>1 DEF IInv, Pass2
  <2>3. RoomForAll(MinPiece)' = RoomForAll(MinPiece)
        /\ Tops(Clauses)' = Tops(Clauses)
    BY <1>2
  <2> QED
    BY <1>1, <2>1, <2>2, <2>3 DEF Pass2
<1>7. Pieces'
  BY <1>1, <1>2 DEF IInv, Pieces
<1> QED
  BY <1>2, <1>4, <1>5, <1>6, <1>7 DEF IInv

\* At the end of a pass every best chunk is in the prompt.
LEMMA PassEnds ==
    ASSUME IInv, stage = "adding", at > Clauses, RoomForAll(MinPiece)
    PROVE  Tops(Clauses) \subseteq DOMAIN prompt
<1>1. at - 1 = Clauses
  BY ClausesAssumption DEF IInv, TypeOK
<1>2. CASE rank = 1
  BY <1>1, <1>2 DEF IInv, Pass1
<1>3. CASE rank # 1
  BY <1>3 DEF IInv, TypeOK, Pass2
<1> QED
  BY <1>2, <1>3

LEMMA NextRankInv == ASSUME IInv, NextRank PROVE IInv'
<1>1. /\ stage = "adding" /\ at > Clauses
      /\ stage' = "adding" /\ at' = 1 /\ rank' = rank + 1
      /\ UNCHANGED <<file, text, index, chunks, length, ranked, upto, cap,
                     prompt, used,
                     evidence>>
  BY DEF NextRank
<1>2. /\ Fresh' /\ Totals' /\ IsFiniteSet(chunks')
      /\ Tops(Clauses)' = Tops(Clauses)
      /\ FairShare' = FairShare
      /\ RoomForAll(MinPiece)' = RoomForAll(MinPiece)
  BY <1>1, AddingFrame, ClausesAssumption
<1>3. TypeOK'
  BY <1>1, ClausesAssumption DEF IInv, TypeOK
<1>4. Pass1'
  BY <1>1 DEF IInv, TypeOK, Pass1
<1>5. Pass2' /\ EvidenceIsInPrompt'
  BY <1>1, <1>2, PassEnds DEF Pass2, EvidenceIsInPrompt
<1>6. Pieces'
  BY <1>1, <1>2 DEF IInv, Pieces
<1> QED
  BY <1>2, <1>3, <1>4, <1>5, <1>6 DEF IInv

LEMMA AskInv == ASSUME IInv, Ask PROVE IInv'
<1>1. /\ stage = "adding" /\ at > Clauses /\ stage' = "asked"
      /\ UNCHANGED <<file, text, index, chunks, length, ranked, upto, cap,
                     rank, at, prompt,
                     used, evidence>>
  BY DEF Ask
<1>2. /\ Fresh' /\ Totals' /\ IsFiniteSet(chunks')
      /\ Tops(Clauses)' = Tops(Clauses)
      /\ FairShare' = FairShare
      /\ RoomForAll(MinPiece)' = RoomForAll(MinPiece)
  BY <1>1, AddingFrame, ClausesAssumption
<1>3. TypeOK'
  BY <1>1 DEF IInv, TypeOK, Stages
<1>4. Pass1' /\ Pass2'
  BY <1>1 DEF Pass1, Pass2
<1>5. Pieces' /\ EvidenceIsInPrompt'
  BY <1>1, <1>2, PassEnds DEF IInv, Pieces, EvidenceIsInPrompt
<1> QED
  BY <1>2, <1>3, <1>4, <1>5 DEF IInv

\* A piece holds an excerpt where there is room for an excerpt of every best
\* chunk, and where there is, there is room for a least piece.
LEMMA PiecesHoldExcerpts ==
    ASSUME IInv, RoomForAll(Excerpt), NEW chunk \in DOMAIN prompt
    PROVE  ExcerptInPrompt(chunk)
<1>1. CASE prompt[chunk] = length[chunk]
  BY <1>1 DEF ExcerptInPrompt
<1>2. CASE cap # NoCap /\ prompt[chunk] = cap
  <2> DEFINE n == Cardinality(Tops(Clauses))
  <2>1. Tops(Clauses) # {} /\ cap = FairShare
    BY <1>2 DEF IInv, Pieces
  <2>2. n \in Nat \ {0}
    BY <2>1, TopsGrow, FS_Subset, FS_CardinalityType, FS_EmptySet,
       ClausesAssumption DEF IInv
  <2>3. n * (Excerpt + Sep) =< Budget
    BY DEF RoomForAll
  <2>4. cap = IF (Budget \div n) - Sep < MinPiece THEN MinPiece
                                                 ELSE (Budget \div n) - Sep
    BY <2>1 DEF FairShare
  <2> HIDE DEF n
  <2>5. Budget \div n \in Nat
    BY <2>2, BudgetAssumption, Quotient
  <2>6. (Budget \div n) - Sep >= Excerpt
    BY <2>2, <2>3, ShareIsExcerpt
  <2>7. cap >= Excerpt
    BY <2>4, <2>5, <2>6, BudgetAssumption
  <2> QED
    BY <1>2, <2>7 DEF ExcerptInPrompt
<1> QED
  BY <1>1, <1>2 DEF IInv, Pieces

LEMMA RoomForExcerpts ==
    ASSUME IInv, RoomForAll(Excerpt)
    PROVE  RoomForAll(MinPiece)
<1> DEFINE n == Cardinality(Tops(Clauses))
<1>1. n \in Nat
  BY TopsGrow, FS_Subset, FS_CardinalityType, ClausesAssumption DEF IInv
<1>2. n * (Excerpt + Sep) =< Budget
  BY DEF RoomForAll
<1> SUFFICES n * (MinPiece + Sep) =< Budget
  BY DEF RoomForAll
<1> HIDE DEF n
<1>3. CASE n = 0
  BY <1>3, BudgetAssumption
<1>4. CASE n # 0
  BY <1>1, <1>2, <1>4, ShareIsExcerpt
<1> QED
  BY <1>3, <1>4

LEMMA ReportInv == ASSUME IInv, Report PROVE IInv'
<1>1. /\ evidence' \in [1..Clauses -> chunks \cup {NoEvidence}]
      /\ \A c \in 1..Clauses : evidence'[c] \in FoundAgain(c) \cup {NoEvidence}
  BY DEF Report
<1>2. /\ stage = "asked" /\ stage' = "reported"
      /\ UNCHANGED <<file, text, index, chunks, length, ranked, upto, cap, rank,
                     at, prompt, used>>
  BY DEF Report
<1>3. index = "own" => \A c \in 1..Clauses :
         evidence'[c] \in Tops(Clauses) \/ evidence'[c] = NoEvidence
  BY <1>1 DEF FoundAgain, Tops
<1>4. TypeOK' /\ IsFiniteSet(chunks')
  BY <1>1, <1>2 DEF IInv, TypeOK, Stages
<1>5. Fresh' /\ Pass1' /\ Pass2'
  BY <1>2 DEF Fresh, Pass1, Pass2
<1>6. Totals'
  BY <1>2 DEF IInv, Totals, Searched, Tops
<1>7. /\ RoomForAll(MinPiece)' = RoomForAll(MinPiece)
      /\ RoomForAll(Excerpt)' = RoomForAll(Excerpt)
      /\ Tops(Clauses)' = Tops(Clauses)
      /\ FairShare' = FairShare
  BY <1>2 DEF RoomForAll, Tops, FairShare
<1>8. Pieces'
  BY <1>2, <1>7 DEF IInv, Pieces
<1>9. EvidenceIsInPrompt'
  <2> SUFFICES ASSUME index = "own", NEW c \in 1..Clauses,
                      evidence'[c] # NoEvidence
               PROVE  /\ RoomForAll(MinPiece) => evidence'[c] \in DOMAIN prompt
                      /\ RoomForAll(Excerpt) => ExcerptInPrompt(evidence'[c])
    BY <1>2, <1>7 DEF EvidenceIsInPrompt, ExcerptInPrompt
  <2>1. RoomForAll(MinPiece) => Tops(Clauses) \subseteq DOMAIN prompt
    BY <1>2 DEF IInv, EvidenceIsInPrompt
  <2>2. evidence'[c] \in Tops(Clauses)
    BY <1>3
  <2> QED
    BY <2>1, <2>2, PiecesHoldExcerpts, RoomForExcerpts
<1> QED
  BY <1>4, <1>5, <1>6, <1>8, <1>9 DEF IInv

-----------------------------------------------------------------------------
LEMMA NextInv == ASSUME IInv, [Next]_vars PROVE IInv'
<1>1. CASE UNCHANGED vars
  <2>1. TypeOK' /\ IsFiniteSet(chunks')
    BY <1>1 DEF vars, IInv, TypeOK
  <2>2. Fresh'
    BY <1>1 DEF vars, IInv, Fresh
  <2>3. Totals'
    BY <1>1 DEF vars, IInv, Totals, Searched, Tops
  <2>4. Pass1'
    <3>1. \A c : Tops(c)' = Tops(c)
      BY <1>1 DEF vars, Tops
    <3>2. FairShare' = FairShare
          /\ (RoomForAll(MinPiece)' <=> RoomForAll(MinPiece))
      BY <3>1, Zenon DEF FairShare, RoomForAll
    <3> QED
      BY <1>1, <3>1, <3>2 DEF vars, IInv, Pass1
  <2>5. Pass2' /\ Pieces'
    BY <1>1 DEF vars, IInv, Pass2, Pieces, Tops, RoomForAll, FairShare
  <2>6. EvidenceIsInPrompt'
    BY <1>1 DEF vars, IInv, Tops, RoomForAll, ExcerptInPrompt,
                EvidenceIsInPrompt
  <2> QED
    BY <2>1, <2>2, <2>3, <2>4, <2>5, <2>6 DEF IInv
<1>2. CASE RefuseUpload
  BY <1>2, StageInv DEF RefuseUpload, IInv, TypeOK
<1>3. CASE AnalyzeUpload
  BY <1>3, StageInv, ExtractedType DEF AnalyzeUpload, Receive
<1>4. CASE AnalyzeItem
  <2>1. PICK f \in Uploads, ocr \in BOOLEAN : Receive(f, BatchText(f, ocr))
    BY <1>4 DEF AnalyzeItem
  <2>2. BatchText(f, ocr) \in SUBSET Nat
    BY ExtractedType DEF BatchText, Raw
  <2> QED
    BY <1>4, <2>1, <2>2, StageInv DEF AnalyzeItem, Receive
<1>5. CASE NothingToIndex
  BY <1>5, StageInv DEF NothingToIndex, IInv, TypeOK
<1> QED
  BY <1>1, <1>2, <1>3, <1>4, <1>5, BuildIndexInv, SearchInv, AskWithAllInv,
     ChooseCapInv, AddInv, SkipInv, NextRankInv, AskInv, ReportInv DEF Next

-----------------------------------------------------------------------------
(* The HTML parser.  SkipDepth is a function by recursion on the parts; an  *)
(* argument by induction on them takes the least part that goes against it. *)

LEMMA LeastNumber ==
  ASSUME NEW S \in SUBSET Nat, S # {}
  PROVE  \E m \in S : \A k \in S : m =< k
<1> DEFINE Less == OpToRel(<, Nat)
<1>1. IsWellFoundedOn(Less, Nat)
  BY NatLessThanWellFounded
<1>2. \A k, m \in Nat : k < m => <<k, m>> \in Less
  BY DEF OpToRel
<1> HIDE DEF Less
<1>3. PICK m \in S : \A k \in S : <<k, m>> \notin Less
  BY <1>1, WFMin
<1>4. ASSUME NEW k \in S PROVE m =< k
  <2>1. k \in Nat /\ m \in Nat
    OBVIOUS
  <2>2. ~ k < m
    BY <1>2, <1>3, <2>1
  <2> QED
    BY <2>1, <2>2
<1> QED
  BY <1>4

\* depth is what SkipDepth should be, up to part n.
Deepens(depth, f, n) ==
    depth = [p \in 0..n |->
                IF p = 0 THEN 0 ELSE After(f.parts[p], depth[p - 1])]

LEMMA AfterType ==
  ASSUME NEW part, NEW depth \in Nat
  PROVE  After(part, depth) \in Nat
  BY DEF After

\* The recursion has a solution: were n the least length without one, the
\* solution for n - 1 would go on.
LEMMA DepthExists ==
  ASSUME NEW f, NEW len \in Nat
  PROVE  \E depth : Deepens(depth, f, len)
<1> DEFINE Without == {n \in Nat : ~ \E depth : Deepens(depth, f, n)}
<1> SUFFICES ASSUME Without # {} PROVE FALSE
  OBVIOUS
<1>1. Without \in SUBSET Nat
  OBVIOUS
<1> HIDE DEF Without
<1>2. PICK n \in Without : \A m \in Without : n =< m
  BY <1>1, LeastNumber
<1>3. n # 0
  <2>1. Deepens([p \in 0..0 |-> 0], f, 0)
    BY DEF Deepens
  <2> QED
    BY <2>1 DEF Without
<1>4. n \in Nat /\ n - 1 \in Nat /\ n - 1 \notin Without
  BY <1>1, <1>2, <1>3
<1>5. PICK depth : Deepens(depth, f, n - 1)
  BY <1>4 DEF Without
<1> DEFINE more == [p \in 0..n |-> IF p = n THEN After(f.parts[n], depth[n - 1])
                                            ELSE depth[p]]
<1>6. ASSUME NEW p \in 0..n
      PROVE  more[p] = IF p = 0 THEN 0 ELSE After(f.parts[p], more[p - 1])
  <2>1. CASE p = n
    BY <1>3, <1>4, <2>1
  <2>2. CASE p # n
    <3>1. p \in 0..n - 1
      BY <1>4, <2>2
    <3>2. depth[p] = IF p = 0 THEN 0 ELSE After(f.parts[p], depth[p - 1])
      BY <1>5, <3>1 DEF Deepens
    <3>3. more[p] = depth[p]
      BY <2>2
    <3>4. p # 0 => more[p - 1] = depth[p - 1]
      BY <1>4, <3>1
    <3> QED
      BY <3>2, <3>3, <3>4
  <2> QED
    BY <2>1, <2>2
<1>7. Deepens(more, f, n)
  <2> DEFINE same == [p \in 0..n |->
                IF p = 0 THEN 0 ELSE After(f.parts[p], more[p - 1])]
  <2>1. DOMAIN more = DOMAIN same /\ \A p \in 0..n : more[p] = same[p]
    BY <1>6
  <2>2. more = same
    BY <2>1
  <2> HIDE DEF more
  <2> QED
    BY <2>2 DEF Deepens
<1> QED
  BY <1>2, <1>7 DEF Without

LEMMA DepthEquation ==
  ASSUME NEW f, Len(f.parts) \in Nat
  PROVE  Deepens(SkipDepth(f), f, Len(f.parts))
<1>1. SkipDepth(f) = CHOOSE depth : Deepens(depth, f, Len(f.parts))
  BY Zenon DEF SkipDepth, Deepens
<1>2. \E depth : Deepens(depth, f, Len(f.parts))
  BY DepthExists
<1> QED
  BY <1>1, <1>2, Zenon

\* The tags of a kind among the parts from q to p.
Among(f, q, p, tag) == {r \in q..p : f.parts[r] = tag}

LEMMA AmongOneMore ==
  ASSUME NEW f, NEW q \in Nat, NEW p \in Nat, q =< p, NEW tag
  PROVE  /\ Cardinality(Among(f, q, p - 1, tag)) \in Nat
         /\ Cardinality(Among(f, q, p, tag)) =
               Cardinality(Among(f, q, p - 1, tag))
                  + (IF f.parts[p] = tag THEN 1 ELSE 0)
<1>1. IsFiniteSet(q..p - 1) /\ Among(f, q, p - 1, tag) \in SUBSET (q..p - 1)
  BY FS_Interval DEF Among
<1>2. IsFiniteSet(Among(f, q, p - 1, tag))
  BY <1>1, FS_Subset
<1>3. Cardinality(Among(f, q, p - 1, tag)) \in Nat
  BY <1>2, FS_CardinalityType
<1>4. p \notin Among(f, q, p - 1, tag)
  BY DEF Among
<1>5. CASE f.parts[p] = tag
  <2>1. Among(f, q, p, tag) = Among(f, q, p - 1, tag) \cup {p}
    BY <1>5 DEF Among
  <2>2. Cardinality(Among(f, q, p - 1, tag) \cup {p})
           = Cardinality(Among(f, q, p - 1, tag)) + 1
    BY <1>2, <1>4, FS_AddElement, Zenon
  <2> QED
    BY <1>3, <1>5, <2>1, <2>2
<1>6. CASE f.parts[p] # tag
  <2>1. Among(f, q, p, tag) = Among(f, q, p - 1, tag)
    BY <1>6 DEF Among
  <2> QED
    BY <1>3, <1>6, <2>1
<1> QED
  BY <1>5, <1>6

\* By how much the parts from q to p open more than they close.
Surplus(f, q, p) ==
    Cardinality(Among(f, q, p, "open")) - Cardinality(Among(f, q, p, "close"))

Turn(part) == IF part = "open" THEN 1 ELSE IF part = "close" THEN -1 ELSE 0

LEMMA SurplusOneMore ==
  ASSUME NEW f, NEW p \in Nat \ {0}
  PROVE  /\ \A q \in 1..p - 1 :
               /\ Surplus(f, q, p - 1) \in Int
               /\ Surplus(f, q, p) = Surplus(f, q, p - 1) + Turn(f.parts[p])
         /\ Surplus(f, p, p) = Turn(f.parts[p])
<1>1. ASSUME NEW q \in 1..p
      PROVE  /\ Surplus(f, q, p - 1) \in Int
             /\ Surplus(f, q, p) = Surplus(f, q, p - 1) + Turn(f.parts[p])
  <2>1. q \in Nat /\ p \in Nat /\ q =< p
    OBVIOUS
  <2>2. \A tag : /\ Cardinality(Among(f, q, p - 1, tag)) \in Nat
                 /\ Cardinality(Among(f, q, p, tag)) =
                       Cardinality(Among(f, q, p - 1, tag))
                          + (IF f.parts[p] = tag THEN 1 ELSE 0)
    BY <2>1, AmongOneMore
  <2> QED
    BY <2>2 DEF Surplus, Turn
<1>2. Surplus(f, p, p - 1) = 0
  <2>1. \A tag : Among(f, p, p - 1, tag) = {}
    BY DEF Among
  <2> QED
    BY <2>1, FS_EmptySet DEF Surplus
<1>3. p \in 1..p /\ \A q \in 1..p - 1 : q \in 1..p
  OBVIOUS
<1>4. Turn(f.parts[p]) \in Int
  BY DEF Turn
<1> QED
  BY <1>1, <1>2, <1>3, <1>4

\* How deep the parser is, is the largest surplus of a part of the page that
\* ends here, or nothing.
IsSurplus(depth, f, p) ==
    /\ depth \in Nat
    /\ \A q \in 1..p : Surplus(f, q, p) =< depth
    /\ depth > 0 => \E q \in 1..p : Surplus(f, q, p) = depth

LEMMA SurplusStep ==
  ASSUME NEW f, NEW p \in Nat \ {0}, NEW depth, IsSurplus(depth, f, p - 1)
  PROVE  IsSurplus(After(f.parts[p], depth), f, p)
<1> DEFINE next == After(f.parts[p], depth)
<1>1. depth \in Nat /\ next \in Nat
  BY AfterType DEF IsSurplus
<1>2. \A q \in 1..p : q \in 1..p - 1 \/ q = p
  OBVIOUS
<1>3. /\ next >= depth + Turn(f.parts[p])
      /\ next >= Turn(f.parts[p])
      /\ next > 0 => next = depth + Turn(f.parts[p])
      /\ depth = 0 => next = 0 \/ next = Turn(f.parts[p])
      /\ Turn(f.parts[p]) \in Int
  BY <1>1 DEF After, Turn
<1> HIDE DEF next
<1>4. ASSUME NEW q \in 1..p PROVE Surplus(f, q, p) =< next
  <2>1. CASE q = p
    BY <1>1, <1>3, <2>1, SurplusOneMore
  <2>2. CASE q \in 1..p - 1
    <3>1. Surplus(f, q, p - 1) =< depth
      BY <2>2 DEF IsSurplus
    <3>2. Surplus(f, q, p - 1) \in Int
          /\ Surplus(f, q, p) = Surplus(f, q, p - 1) + Turn(f.parts[p])
      BY <2>2, SurplusOneMore
    <3> QED
      BY <1>1, <1>3, <3>1, <3>2
  <2> QED
    BY <1>2, <2>1, <2>2
<1>5. ASSUME next > 0 PROVE \E q \in 1..p : Surplus(f, q, p) = next
  <2>1. CASE depth = 0
    <3>1. p \in 1..p
      OBVIOUS
    <3> QED
      BY <1>1, <1>3, <1>5, <2>1, <3>1, SurplusOneMore
  <2>2. CASE depth > 0
    <3>1. PICK q \in 1..p - 1 : Surplus(f, q, p - 1) = depth
      BY <2>2 DEF IsSurplus
    <3>2. q \in 1..p
      OBVIOUS
    <3>3. Surplus(f, q, p) = Surplus(f, q, p - 1) + Turn(f.parts[p])
      BY SurplusOneMore
    <3> QED
      BY <1>3, <1>5, <3>1, <3>2, <3>3
  <2> QED
    BY <1>1, <2>1, <2>2
<1>6. next \in Nat
  BY <1>1
<1> QED
  BY <1>4, <1>5, <1>6 DEF IsSurplus, next

LEMMA DepthIsSurplus ==
  ASSUME NEW f, Len(f.parts) \in Nat
  PROVE  \A p \in 0..Len(f.parts) : IsSurplus(SkipDepth(f)[p], f, p)
<1> DEFINE d == SkipDepth(f)
           Wrong == {p \in 0..Len(f.parts) : ~ IsSurplus(d[p], f, p)}
<1> SUFFICES ASSUME Wrong # {} PROVE FALSE
  OBVIOUS
<1>1. \A p \in 0..Len(f.parts) :
         d[p] = IF p = 0 THEN 0 ELSE After(f.parts[p], d[p - 1])
  BY DepthEquation DEF Deepens
<1> HIDE DEF d
<1>2. PICK p \in Wrong : \A r \in Wrong : p =< r
  <2>1. Wrong \in SUBSET Nat
    OBVIOUS
  <2> HIDE DEF Wrong
  <2> QED
    BY <2>1, LeastNumber
<1>3. p \in 0..Len(f.parts) /\ ~ IsSurplus(d[p], f, p)
  BY <1>2
<1>4. p # 0
  <2>1. IsSurplus(0, f, 0)
    BY DEF IsSurplus
  <2> QED
    BY <1>1, <1>3, <2>1
<1>5. p \in Nat \ {0} /\ p - 1 \in 0..Len(f.parts) /\ p - 1 \notin Wrong
  BY <1>2, <1>3, <1>4
<1>6. IsSurplus(d[p - 1], f, p - 1)
  BY <1>5
<1>7. d[p] = After(f.parts[p], d[p - 1])
  BY <1>1, <1>3, <1>4
<1> QED
  BY <1>3, <1>5, <1>6, <1>7, SurplusStep

\* What the parser passes over is what is hidden.
LEMMA HtmlTextIsVisible ==
  ASSUME NEW f \in Files
  PROVE  HtmlText(f) = {p \in With(f, {"text"}) : ~ Hidden(f, p)}
<1>1. f.parts \in Seq(Contents \cup Tags)
  BY DEF Files
<1>2. Len(f.parts) \in Nat /\ DOMAIN f.parts = 1..Len(f.parts)
  BY <1>1
<1>3. ASSUME NEW p \in With(f, {"text"})
      PROVE  SkipDepth(f)[p] = 0 <=> ~ Hidden(f, p)
  <2>1. p \in 1..Len(f.parts) /\ p \in 0..Len(f.parts)
    BY <1>2 DEF With
  <2>2. IsSurplus(SkipDepth(f)[p], f, p)
    BY <1>2, <2>1, DepthIsSurplus
  <2>3. Hidden(f, p) <=> \E q \in 1..p : Surplus(f, q, p) > 0
    <3>1. ASSUME NEW q \in 1..p, NEW tag
          PROVE  Cardinality(Among(f, q, p, tag)) \in Nat
      <4>1. q \in Nat /\ p \in Nat
        BY <2>1
      <4>2. IsFiniteSet(q..p)
        BY <4>1, FS_Interval
      <4>3. Among(f, q, p, tag) \in SUBSET (q..p)
        BY DEF Among
      <4>4. IsFiniteSet(Among(f, q, p, tag))
        BY <4>2, <4>3, FS_Subset, Zenon
      <4> QED
        BY <4>4, FS_CardinalityType, Zenon
    <3>2. Hidden(f, p) <=> \E q \in 1..p :
             Cardinality(Among(f, q, p, "open"))
                > Cardinality(Among(f, q, p, "close"))
      BY Zenon DEF Hidden, Among
    <3> QED
      BY <3>1, <3>2 DEF Surplus
  <2>4. SkipDepth(f)[p] > 0 <=> \E q \in 1..p : Surplus(f, q, p) > 0
    <3>1. \A q \in 1..p : Surplus(f, q, p) \in Int
      <4>1. p \in Nat \ {0} /\ \A q \in 1..p : q \in 1..p - 1 \/ q = p
        BY <2>1
      <4>2. Turn(f.parts[p]) \in Int
        BY DEF Turn
      <4> QED
        BY <4>1, <4>2, SurplusOneMore
    <3> QED
      BY <2>2, <3>1 DEF IsSurplus
  <2>5. SkipDepth(f)[p] \in Nat
    BY <2>2 DEF IsSurplus
  <2> QED
    BY <2>3, <2>4, <2>5
<1> QED
  BY <1>3 DEF HtmlText

-----------------------------------------------------------------------------
\* Every definition of the specification is of the type it is given: the loops
\* stay within their bounds and what is shown is part of the text.
THEOREM TypeCorrect == Spec => []TypeOK
<1>1. Init => IInv
  BY InitInv
<1>2. IInv /\ [Next]_vars => IInv'
  BY NextInv
<1>3. IInv => TypeOK
  BY DEF IInv
<1> QED
  BY <1>1, <1>2, <1>3, PTL DEF Spec

\* _build_context keeps its promise wherever a least piece of every best chunk
\* fits the budget: the evidence of a run with an index of its own is from a
\* chunk that is in the prompt, and wherever an excerpt of every best chunk
\* fits, the LLM has read the whole excerpt.
THEOREM EvidenceInPrompt == Spec => []EvidenceIsInPrompt
<1>1. Init => IInv
  BY InitInv
<1>2. IInv /\ [Next]_vars => IInv'
  BY NextInv
<1>3. IInv => EvidenceIsInPrompt
  BY DEF IInv
<1> QED
  BY <1>1, <1>2, <1>3, PTL DEF Spec

\* The text that is analysed of an HTML page is what is not hidden, for a page
\* of any number of parts, however its tags are nested: the depth _skip_depth
\* counts to, clipped at 0, is the largest surplus of opening tags.
THEOREM HtmlTextVisible == Spec => []HtmlTextIsVisibleText
<1>1. Init => HtmlTextIsVisibleText
  BY DEF Init, HtmlTextIsVisibleText
<1>2. HtmlTextIsVisibleText /\ [Next]_vars => HtmlTextIsVisibleText'
  <2> SUFFICES ASSUME HtmlTextIsVisibleText, [Next]_vars
               PROVE  HtmlTextIsVisibleText'
    OBVIOUS
  <2>1. ASSUME NEW f \in Uploads, f.format = "html"
        PROVE  ExtractText(f) =
                  Truncated({p \in With(f, {"text"}) : ~ Hidden(f, p)})
    <3>1. HtmlText(f) = {p \in With(f, {"text"}) : ~ Hidden(f, p)}
      BY UploadsAssumption, HtmlTextIsVisible
    <3>2. ExtractText(f) = Truncated(HtmlText(f))
      BY <2>1 DEF ExtractText
    <3> QED
      BY <3>1, <3>2
  <2>2. CASE AnalyzeUpload
    <3>1. PICK f \in Uploads : Receive(f, ExtractText(f))
      BY <2>2 DEF AnalyzeUpload
    <3>2. file' = f /\ text' = ExtractText(f)
      BY <3>1 DEF Receive
    <3> QED
      BY <2>1, <3>2 DEF HtmlTextIsVisibleText
  <2>3. CASE AnalyzeItem
    <3>1. PICK f \in Uploads, ocr \in BOOLEAN : Receive(f, BatchText(f, ocr))
      BY <2>3 DEF AnalyzeItem
    <3>2. file' = f /\ text' = BatchText(f, ocr)
      BY <3>1 DEF Receive
    <3>3. ASSUME f.format = "html" PROVE BatchText(f, ocr) = ExtractText(f)
      <4>1. Readable(f, ocr)
        BY <3>3 DEF Readable
      <4> QED
        BY <4>1 DEF BatchText
    <3> QED
      BY <2>1, <3>2, <3>3 DEF HtmlTextIsVisibleText
  <2>4. CASE UNCHANGED vars
    BY <2>4 DEF vars, HtmlTextIsVisibleText
  <2>5. stage' # "received" => HtmlTextIsVisibleText'
    BY DEF HtmlTextIsVisibleText
  <2>6. CASE Search \/ Add \/ Skip \/ NextRank
    <3>1. stage' # "received"
      BY <2>6 DEF Search, Add, Skip, NextRank
    <3> QED
      BY <2>5, <3>1
  <2>7. CASE \/ RefuseUpload \/ NothingToIndex \/ BuildIndex \/ AskWithAll
             \/ ChooseCap \/ Ask \/ Report
    <3>1. stage' # "received"
      BY <2>7 DEF RefuseUpload, NothingToIndex, BuildIndex, AskWithAll,
                  ChooseCap, Ask, Report
    <3> QED
      BY <2>5, <3>1
  <2> QED
    BY <2>2, <2>3, <2>4, <2>6, <2>7 DEF Next
<1> QED
  BY <1>1, <1>2, PTL DEF Spec

=============================================================================
