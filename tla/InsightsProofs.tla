---------------------------- MODULE InsightsProofs ----------------------------
(***************************************************************************)
(* Proofs about Insights, for any number of recommendations, proposals,    *)
(* clauses, profiles, officers and reviews.                                *)
(*                                                                         *)
(* The second half is about ReviewAgent: whole runs of the review agent do *)
(* to the stores what Insights says of a review's two awaits, one that     *)
(* ends with "done" has lost no proposal, and each step brings a run       *)
(* closer to its end.                                                      *)
(***************************************************************************)
EXTENDS Insights, Sequences, TLAPS

\* An officer has carried request on r as far as the stage at.
Has(at, request, r) == \E o \in Officers :
    officer[o].at = at /\ officer[o].request = request /\ officer[o].rec = r

\* r is responsible for what is in force: from the moment its approval writes
\* the file to the moment its withdrawal does.
Holds(r) ==
    \/ status[r] = "approved" /\ ~Has("patched", "withdraw", r)
    \/ Has("patched", "approve", r)

\* r is responsible for its proposal's place on the blacklist: from the moment
\* its rejection adds it to the moment its reopening removes it.
Bars(r) ==
    \/ status[r] = "rejected" /\ ~Has("marked", "reject", r)
    \/ Has("marked", "reopen", r)

Records ==
    /\ \A r \in Recs : status[r] = "absent" <=> proposed[r] = Nothing
    /\ \A r \in Recs : few_shot[r] > 0 => proposed[r] \in Proposals \ MissingRules
    /\ \A o \in Officers : Busy(o) =>
          /\ status[officer[o].rec] # "absent"
          /\ officer[o].at = "patched" => officer[o].request \in {"approve", "withdraw"}
          /\ officer[o].at = "marked" => officer[o].request \in {"reject", "reopen"}

\* At most one activity at a time on a topic that was never disturbed.
Alone ==
    /\ \A o1, o2 \in Officers :
          (Busy(o1) /\ Busy(o2) /\ TopicOf(officer[o1].rec) = TopicOf(officer[o2].rec)
            /\ TopicOf(officer[o1].rec) \notin disturbed) => o1 = o2
    /\ \A v1, v2 \in Reviews :
          (Reviewing(v1) /\ Reviewing(v2) /\ Topic[review[v1].proposal] = Topic[review[v2].proposal]
            /\ Topic[review[v1].proposal] \notin disturbed) => v1 = v2
    /\ \A o \in Officers, v \in Reviews :
          (Busy(o) /\ Reviewing(v) /\ TopicOf(officer[o].rec) = Topic[review[v].proposal])
             => TopicOf(officer[o].rec) \in disturbed

\* What an officer has read still holds, but for what he has changed himself.
Expected(at, request) ==
    IF at = "marked" THEN IF request = "reject" THEN "rejected" ELSE "pending"
    ELSE ActsOn[request]

InOrder ==
    /\ \A o \in Officers : (Busy(o) /\ TopicOf(officer[o].rec) \notin disturbed) =>
          status[officer[o].rec] = Expected(officer[o].at, officer[o].request)
    /\ \A v \in Reviews : (Reviewing(v) /\ Topic[review[v].proposal] \notin disturbed) =>
          /\ review[v].proposal \notin blacklist
          /\ review[v].at = "not_pending" => ~HasPending(review[v].proposal)

InForce ==
    /\ \A r \in Recs : (proposed[r] \in Proposals \ MissingRules /\ TopicOf(r) \notin disturbed) =>
          few_shot[r] = IF Holds(r) THEN 1 ELSE 0
    /\ \A r \in Recs \ swept :
          (proposed[r] \in MissingRules /\ TopicOf(r) \notin disturbed /\ Holds(r)) =>
             regulatory_db[Default][TopicOf(r)] = 1
    /\ \A r1, r2 \in Recs \ swept :
          (/\ proposed[r1] \in MissingRules /\ proposed[r2] \in MissingRules
           /\ TopicOf(r1) = TopicOf(r2) /\ TopicOf(r1) \notin disturbed
           /\ Holds(r1) /\ Holds(r2)) => r1 = r2
    /\ \A c \in Clauses : (c \notin disturbed /\ c \notin Shipped[Default] /\ regulatory_db[Default][c] > 0)
          => \E r \in Recs : proposed[r] \in MissingRules /\ TopicOf(r) = c /\ Holds(r)

Barred ==
    /\ \A p \in Proposals : Topic[p] \notin disturbed =>
          (p \in blacklist <=> \E r \in Recs : proposed[r] = p /\ Bars(r))
    /\ \A r1, r2 \in Recs :
          (/\ status[r1] \in {"pending", "rejected"} /\ status[r2] \in {"pending", "rejected"}
           /\ proposed[r1] = proposed[r2] /\ TopicOf(r1) \notin disturbed) => r1 = r2

IInv == TypeOK /\ NoDuplicateClause /\ Records /\ Alone /\ InOrder /\ InForce /\ Barred

-----------------------------------------------------------------------------
\* What a step does to the invariant when it touches neither the files nor the
\* blacklist, and on an undisturbed topic nobody's responsibility.
LEMMA SameResponsibilities ==
    ASSUME IInv, UNCHANGED <<proposed, regulatory_db, few_shot, blacklist, swept>>,
           disturbed \subseteq disturbed',
           \A r \in Recs : TopicOf(r) \notin disturbed' =>
               /\ Holds(r)' <=> Holds(r)
               /\ Bars(r)' <=> Bars(r)
               /\ status'[r] \in {"pending", "rejected"} => status[r] \in {"pending", "rejected"}
    PROVE  InForce' /\ Barred'
<1> USE DEF IInv, TopicOf
<1>1. InForce'
  <2>1. \A r \in Recs :
           (proposed[r] \in Proposals \ MissingRules /\ TopicOf(r) \notin disturbed') =>
               few_shot[r] = IF Holds(r)' THEN 1 ELSE 0
    BY DEF InForce
  <2>2. \A r \in Recs \ swept :
          (proposed[r] \in MissingRules /\ TopicOf(r) \notin disturbed' /\ Holds(r)') =>
             regulatory_db[Default][TopicOf(r)] = 1
    BY ProposalsAssumption DEF InForce
  <2>3. \A r1, r2 \in Recs \ swept :
          (/\ proposed[r1] \in MissingRules /\ proposed[r2] \in MissingRules
           /\ TopicOf(r1) = TopicOf(r2) /\ TopicOf(r1) \notin disturbed'
           /\ Holds(r1)' /\ Holds(r2)') => r1 = r2
    BY ProposalsAssumption DEF InForce
  <2>4. \A c \in Clauses : (c \notin disturbed' /\ c \notin Shipped[Default] /\ regulatory_db[Default][c] > 0)
          => \E r \in Recs : proposed[r] \in MissingRules /\ TopicOf(r) = c /\ Holds(r)'
    BY ProposalsAssumption DEF InForce
  <2> QED
    BY <2>1, <2>2, <2>3, <2>4 DEF InForce
<1>2. Barred'
  <2>1. \A p \in Proposals : Topic[p] \notin disturbed' =>
          (p \in blacklist <=> \E r \in Recs : proposed[r] = p /\ Bars(r)')
    BY ProposalsAssumption DEF Barred
  <2>2. \A r1, r2 \in Recs :
          (/\ status'[r1] \in {"pending", "rejected"} /\ status'[r2] \in {"pending", "rejected"}
           /\ proposed[r1] = proposed[r2] /\ TopicOf(r1) \notin disturbed') => r1 = r2
    BY DEF Barred
  <2> QED
    BY <2>1, <2>2 DEF Barred
<1> QED
  BY <1>1, <1>2

-----------------------------------------------------------------------------
LEMMA InitIInv == Init => IInv
<1> SUFFICES ASSUME Init PROVE IInv
  OBVIOUS
<1> USE DEF Init
<1>1. TypeOK
  BY ProfilesAssumption DEF TypeOK, Statuses
<1>2. NoDuplicateClause
  BY DEF NoDuplicateClause
<1>3. /\ \A o \in Officers : ~Busy(o)
      /\ \A v \in Reviews : ~Reviewing(v)
      /\ \A r \in Recs : ~Holds(r) /\ ~Bars(r)
  BY DEF Busy, Reviewing, NoRequest, NoReview, Holds, Bars, Has
<1>4. Records /\ Alone /\ InOrder
  BY <1>3 DEF Records, Alone, InOrder
<1>5. InForce /\ Barred
  BY <1>3, ProposalsAssumption, ProfilesAssumption DEF InForce, Barred
<1> QED
  BY <1>1, <1>2, <1>3, <1>4, <1>5 DEF IInv

\* An officer begins.
LEMMA ReadStep ==
    ASSUME IInv, NEW o \in Officers, NEW request \in Requests, NEW r \in Recs,
           ReadRecommendation(o, request, r)
    PROVE  IInv'
<1> USE DEF IInv, ReadRecommendation, stores, Busy, Reviewing
<1>1. TypeOK'
  BY DEF TypeOK, OfficerStates, Begins, Topics, TopicOf, Requests, ActsOn, Records
<1>2. NoDuplicateClause'
  BY DEF NoDuplicateClause
<1>3. Records'
  BY DEF Records, Requests, ActsOn, TypeOK, OfficerStates
<1>4. Alone'
  <2>1. /\ disturbed \subseteq disturbed'
        /\ \/ TopicOf(r) \in disturbed'
           \/ /\ \A b \in Officers : Busy(b) => TopicOf(officer[b].rec) # TopicOf(r)
              /\ \A v \in Reviews : Reviewing(v) => Topic[review[v].proposal] # TopicOf(r)
    BY DEF Begins, OfficersOn, ReviewsOn
  <2>2. /\ officer'[o].rec = r
        /\ \A b \in Officers : b # o => officer'[b] = officer[b]
        /\ UNCHANGED <<proposed, review>>
    BY DEF TypeOK
  <2>3. Alone
    OBVIOUS
  <2> HIDE DEF IInv, ReadRecommendation, stores
  <2>4. \A q : TopicOf(q)' = TopicOf(q)
    BY <2>2 DEF TopicOf
  <2>5. ASSUME NEW b \in Officers, NEW v \in Reviews, Busy(b)', Reviewing(v)',
               TopicOf(officer'[b].rec) = Topic[review'[v].proposal]
        PROVE  TopicOf(officer'[b].rec) \in disturbed'
    <3>1. CASE b = o
      BY <2>1, <2>2, <2>5, <3>1
    <3>2. CASE b # o
      BY <2>1, <2>2, <2>3, <2>5, <3>2 DEF Alone
    <3> QED
      BY <3>1, <3>2
  <2>6. ASSUME NEW v1 \in Reviews, NEW v2 \in Reviews, Reviewing(v1)', Reviewing(v2)',
               Topic[review'[v1].proposal] = Topic[review'[v2].proposal],
               Topic[review'[v1].proposal] \notin disturbed'
        PROVE  v1 = v2
    BY <2>1, <2>2, <2>3, <2>6 DEF Alone
  <2>7. ASSUME NEW a \in Officers, NEW b \in Officers, Busy(a)', Busy(b)',
               TopicOf(officer'[a].rec) = TopicOf(officer'[b].rec),
               TopicOf(officer'[a].rec) \notin disturbed'
        PROVE  a = b
    <3>1. CASE a # o /\ b # o
      BY <2>1, <2>2, <2>3, <2>7, <3>1 DEF Alone
    <3>2. CASE a = o \/ b = o
      BY <2>1, <2>2, <2>7, <3>2
    <3> QED
      BY <3>1, <3>2
  <2> QED
    BY <2>4, <2>5, <2>6, <2>7 DEF Alone
<1>5. InOrder'
  BY DEF InOrder, Begins, Expected, TopicOf, TypeOK, HasPending
<1>6. \A q \in Recs : (Holds(q)' <=> Holds(q)) /\ (Bars(q)' <=> Bars(q))
  BY DEF Holds, Bars, Has, TypeOK
<1>7. disturbed \subseteq disturbed'
  BY DEF Begins
<1> QED
  BY <1>1, <1>2, <1>3, <1>4, <1>5, <1>6, <1>7, SameResponsibilities

\* A request ends without having written anything, or leaves its topic disturbed.
LEMMA OfficerStops ==
    ASSUME IInv, NEW o \in Officers, Busy(o), Done(o), UNCHANGED <<stores, review, swept>>,
           disturbed \subseteq disturbed', disturbed' \subseteq Topics,
           HalfDone(o) => TopicOf(officer[o].rec) \in disturbed'
    PROVE  IInv'
<1> USE DEF IInv, Done, stores, Busy, Reviewing, NoRequest
<1>1. TypeOK'
  BY DEF TypeOK
<1>2. NoDuplicateClause'
  BY DEF NoDuplicateClause
<1>3. Records'
  BY DEF Records, TypeOK
<1>4. Alone'
  BY DEF Alone, TopicOf, TypeOK
<1>5. InOrder'
  BY DEF InOrder, Expected, TopicOf, TypeOK, HasPending
<1>6. \A q \in Recs : TopicOf(q) \notin disturbed' =>
           (Holds(q)' <=> Holds(q)) /\ (Bars(q)' <=> Bars(q))
  BY DEF Holds, Bars, Has, TypeOK, HalfDone, TopicOf
<1> QED
  BY <1>1, <1>2, <1>3, <1>4, <1>5, <1>6, SameResponsibilities

\* What is known of the officer who acts next on an undisturbed topic: he is
\* the only one there, and what he has read is true.
LEMMA ActingAlone ==
    ASSUME IInv, NEW o \in Officers, Busy(o), TopicOf(officer[o].rec) \notin disturbed
    PROVE  /\ status[officer[o].rec] = Expected(officer[o].at, officer[o].request)
           /\ \A q \in Officers : (q # o /\ Busy(q)) =>
                 TopicOf(officer[q].rec) # TopicOf(officer[o].rec)
           /\ \A v \in Reviews : Reviewing(v) =>
                 Topic[review[v].proposal] # TopicOf(officer[o].rec)
BY DEF IInv, Alone, InOrder

\* An officer moves to his next stage: who is alone stays alone.
LEMMA StillAlone ==
    ASSUME IInv, NEW o \in Officers, Busy(o), NEW at, To(o, at) \/ Done(o),
           UNCHANGED <<proposed, review, disturbed>>
    PROVE  Alone'
<1>1. \A b \in Officers : Busy(b)' => Busy(b) /\ officer'[b].rec = officer[b].rec
  BY DEF IInv, To, Done, Busy, NoRequest, TypeOK, OfficerStates
<1>2. /\ \A v \in Reviews : Reviewing(v)' <=> Reviewing(v)
      /\ \A r : TopicOf(r)' = TopicOf(r)
  BY DEF Reviewing, TopicOf
<1> QED
  BY <1>1, <1>2 DEF IInv, Alone

\* An officer moves to his next stage: nobody else's responsibilities change,
\* and on an undisturbed topic his own are those of his stage.
LEMMA OfficerMoves ==
    ASSUME IInv, NEW o \in Officers, Busy(o), NEW at, To(o, at) \/ Done(o),
           NEW r \in Recs, officer[o].rec = r,
           \A q \in Recs : q # r => status'[q] = status[q],
           UNCHANGED proposed
    PROVE  /\ \A q \in Recs : q # r => (Holds(q)' <=> Holds(q)) /\ (Bars(q)' <=> Bars(q))
           /\ TopicOf(r) \notin disturbed =>
                 \A a \in {"patched", "marked"}, request \in Requests :
                    /\ Has(a, request, r) <=> officer[o].at = a /\ officer[o].request = request
                    /\ To(o, at) =>
                          (Has(a, request, r)' <=> at = a /\ officer[o].request = request)
                    /\ Done(o) => ~Has(a, request, r)'
<1>0. /\ officer \in [Officers -> OfficerStates \cup {NoRequest}]
      /\ officer[o] \in OfficerStates
  BY DEF IInv, TypeOK, OfficerStates, Records, Busy, NoRequest
<1>1. \A q \in Recs : q # r => \A a \in {"patched", "marked"}, request \in Requests :
          Has(a, request, q)' <=> Has(a, request, q)
  <2>1. CASE To(o, at)
    BY <1>0, <2>1 DEF Has, To, OfficerStates
  <2>2. CASE Done(o)
    BY <1>0, <2>2 DEF Has, Done, NoRequest, OfficerStates
  <2> QED
    BY <2>1, <2>2
<1>2. ASSUME TopicOf(r) \notin disturbed
      PROVE  \A q \in Officers : (Busy(q) /\ officer[q].rec = r) => q = o
  BY <1>2, ActingAlone
<1>3. \A q \in Recs : q # r => (Holds(q)' <=> Holds(q)) /\ (Bars(q)' <=> Bars(q))
  BY <1>1 DEF Holds, Bars, Requests
<1>4. ASSUME TopicOf(r) \notin disturbed,
             NEW a \in {"patched", "marked"}, NEW request \in Requests
      PROVE  /\ Has(a, request, r) <=> officer[o].at = a /\ officer[o].request = request
             /\ To(o, at) => (Has(a, request, r)' <=> at = a /\ officer[o].request = request)
             /\ Done(o) => ~Has(a, request, r)'
  <2>1. Has(a, request, r) <=> officer[o].at = a /\ officer[o].request = request
    BY <1>2, <1>4 DEF Has, Busy
  <2>2. ASSUME To(o, at)
        PROVE  Has(a, request, r)' <=> at = a /\ officer[o].request = request
    BY <1>0, <1>2, <1>4, <2>2 DEF Has, Busy, To, OfficerStates
  <2>3. ASSUME Done(o)
        PROVE  ~Has(a, request, r)'
    BY <1>0, <1>2, <1>4, <2>3 DEF Has, Busy, Done, NoRequest, OfficerStates
  <2> QED
    BY <2>1, <2>2, <2>3
<1> QED
  BY <1>3, <1>4

\* An approval or a withdrawal writes its file: what the step does to
\* everything but the file.
LEMMA PatchStep ==
    ASSUME IInv, NEW o \in Officers, NEW request \in {"approve", "withdraw"},
           officer[o].at = "read", officer[o].request = request,
           NEW r \in Recs, officer[o].rec = r, To(o, "patched"),
           UNCHANGED <<status, proposed, blacklist, review, disturbed>>
    PROVE  /\ Alone' /\ InOrder' /\ Barred'
           /\ \A q \in Recs : q # r => (Holds(q)' <=> Holds(q))
           /\ TopicOf(r) \notin disturbed =>
                 (Holds(r) <=> request = "withdraw") /\ (Holds(r)' <=> request = "approve")
<1>0. Busy(o) /\ officer[o] \in OfficerStates
  BY DEF Busy, IInv, TypeOK, NoRequest
<1>1. Alone'
  BY <1>0, StillAlone
<1>2. InOrder'
  BY <1>0 DEF IInv, InOrder, To, TypeOK, OfficerStates, Busy, Expected,
     ActsOn, TopicOf, HasPending, Reviewing
<1>3. \A q \in Recs : Bars(q)' <=> Bars(q)
  BY <1>0 DEF Bars, Has, To, IInv, TypeOK, OfficerStates
<1>4. Barred'
  BY <1>3 DEF IInv, Barred, TopicOf
<1>5. Expected("read", "approve") = "pending" /\ Expected("read", "withdraw") = "approved"
  BY DEF Expected, ActsOn
<1>6. \A q \in Recs : q # r => (Holds(q)' <=> Holds(q))
  BY <1>0, OfficerMoves
<1>7. ASSUME TopicOf(r) \notin disturbed
      PROVE  (Holds(r) <=> request = "withdraw") /\ (Holds(r)' <=> request = "approve")
  BY <1>0, <1>5, <1>7, OfficerMoves, ActingAlone DEF Holds, Requests
<1> QED
  BY <1>1, <1>2, <1>4, <1>6, <1>7

\* An approval writes its file.
LEMMA ApplyStep ==
    ASSUME IInv, NEW o \in Officers, ApplyRecommendation(o)
    PROVE  IInv'
<1>0. /\ Busy(o) /\ officer[o].at = "read" /\ officer[o].request = "approve"
      /\ officer[o] \in OfficerStates
      /\ \E r \in Recs : officer[o].rec = r
  BY DEF ApplyRecommendation, At, Busy, IInv, TypeOK, OfficerStates, NoRequest
<1>r. PICK r \in Recs : officer[o].rec = r
  BY <1>0
<1>p. status[r] # "absent" /\ proposed[r] \in Proposals
  BY <1>0, <1>r DEF IInv, TypeOK, Records
<1>a. UNCHANGED <<status, proposed, blacklist, review, disturbed>>
  BY DEF ApplyRecommendation
<1>1. CASE Done(o) /\ UNCHANGED <<regulatory_db, few_shot, swept>>
  <2>1. ~HalfDone(o)
    BY <1>0 DEF HalfDone
  <2>2. disturbed \subseteq Topics
    BY DEF IInv, TypeOK
  <2> QED
    BY <1>0, <1>1, <1>a, <2>1, <2>2, OfficerStops DEF stores
<1>3. ASSUME To(o, "patched")
      PROVE  /\ Alone' /\ InOrder' /\ Barred'
             /\ \A q \in Recs : q # r => (Holds(q)' <=> Holds(q))
             /\ TopicOf(r) \notin disturbed => ~Holds(r) /\ Holds(r)'
  BY <1>0, <1>r, <1>a, <1>3, PatchStep
<1>4. CASE /\ proposed[r] \in MissingRules
           /\ regulatory_db[Default][TopicOf(r)] = 0
           /\ regulatory_db' = [regulatory_db EXCEPT ![Default][TopicOf(r)] = @ + 1]
           /\ swept' = swept \ {r}
           /\ To(o, "patched")
           /\ UNCHANGED few_shot
  <2>0. TopicOf(r) \in Clauses /\ Default \in Profiles
    BY <1>4, ProposalsAssumption, ProfilesAssumption DEF TopicOf
  <2>1. TypeOK'
    BY <1>0, <1>4, <1>a, <2>0 DEF IInv, TypeOK, To, OfficerStates
  <2>2. NoDuplicateClause'
    BY <1>4, <2>0 DEF IInv, NoDuplicateClause, TypeOK
  <2>3. Records'
    BY <1>0, <1>4, <1>a DEF IInv, Records, To, Busy, TypeOK, OfficerStates
  <2>4. InForce'
    <3>0. /\ regulatory_db[Default] \in [Clauses -> Nat]
          /\ regulatory_db'[Default][TopicOf(r)] = 1
          /\ \A c \in Clauses \ {TopicOf(r)} : regulatory_db'[Default][c] = regulatory_db[Default][c]
      BY <1>4, <2>0 DEF IInv, TypeOK
    <3>1. \A q \in Recs : (proposed[q] \in Proposals \ MissingRules /\ TopicOf(q) \notin disturbed) =>
             few_shot[q] = IF Holds(q)' THEN 1 ELSE 0
      BY <1>3, <1>4 DEF IInv, InForce
    <3>2. \A q \in Recs \ swept' :
             (/\ q # r /\ proposed[q] \in MissingRules
              /\ TopicOf(q) \notin disturbed /\ Holds(q)') =>
                Holds(q) /\ regulatory_db[Default][TopicOf(q)] = 1 /\ TopicOf(q) # TopicOf(r)
      BY <1>3, <1>4 DEF IInv, InForce
    <3>3. \A q \in Recs \ swept' :
             (proposed[q] \in MissingRules /\ TopicOf(q) \notin disturbed /\ Holds(q)') =>
                regulatory_db'[Default][TopicOf(q)] = 1
      BY <3>0, <3>2, ProposalsAssumption DEF TopicOf
    <3>4. \A q1, q2 \in Recs \ swept' :
             (/\ proposed[q1] \in MissingRules /\ proposed[q2] \in MissingRules
              /\ TopicOf(q1) = TopicOf(q2) /\ TopicOf(q1) \notin disturbed
              /\ Holds(q1)' /\ Holds(q2)') => q1 = q2
      BY <1>4, <3>2 DEF IInv, InForce
    <3>5. \A c \in Clauses : (/\ c \notin disturbed /\ c \notin Shipped[Default]
                              /\ regulatory_db'[Default][c] > 0) =>
             \E q \in Recs : proposed[q] \in MissingRules /\ TopicOf(q) = c /\ Holds(q)'
      <4> SUFFICES ASSUME NEW c \in Clauses, c \notin disturbed, c \notin Shipped[Default],
                          regulatory_db'[Default][c] > 0
                   PROVE  \E q \in Recs : proposed[q] \in MissingRules /\ TopicOf(q) = c /\ Holds(q)'
        OBVIOUS
      <4>1. CASE c = TopicOf(r)
        BY <1>3, <1>4, <4>1
      <4>2. CASE c # TopicOf(r)
        BY <1>3, <1>4, <3>0, <4>2 DEF IInv, InForce
      <4> QED
        BY <4>1, <4>2
    <3> QED
      BY <1>a, <1>4, <3>1, <3>3, <3>4, <3>5 DEF InForce, TopicOf
  <2> QED
    BY <1>3, <1>4, <2>1, <2>2, <2>3, <2>4 DEF IInv
<1>5. CASE /\ proposed[r] \notin MissingRules
           /\ few_shot' = [few_shot EXCEPT ![r] = @ + 1]
           /\ To(o, "patched")
           /\ UNCHANGED <<regulatory_db, swept>>
  <2>1. TypeOK'
    BY <1>0, <1>5, <1>a DEF IInv, TypeOK, To, OfficerStates
  <2>2. NoDuplicateClause'
    BY <1>5 DEF IInv, NoDuplicateClause
  <2>3. Records'
    BY <1>0, <1>p, <1>5, <1>a DEF IInv, Records, To, Busy, TypeOK, OfficerStates
  <2>4. InForce'
    <3>1. \A q \in Recs : (proposed[q] \in Proposals \ MissingRules /\ TopicOf(q) \notin disturbed) =>
             few_shot'[q] = IF Holds(q)' THEN 1 ELSE 0
      BY <1>p, <1>3, <1>5 DEF IInv, InForce, TypeOK
    <3>2. \A q \in Recs : (proposed[q] \in MissingRules) => (Holds(q)' <=> Holds(q))
      BY <1>3, <1>5
    <3> QED
      BY <1>a, <1>5, <3>1, <3>2 DEF IInv, InForce, TopicOf
  <2> QED
    BY <1>3, <1>5, <2>1, <2>2, <2>3, <2>4 DEF IInv
<1> QED
  BY <1>r, <1>1, <1>4, <1>5 DEF ApplyRecommendation

\* A withdrawal writes its file.
LEMMA WithdrawStep ==
    ASSUME IInv, NEW o \in Officers, WithdrawRecommendation(o)
    PROVE  IInv'
<1>0. /\ Busy(o) /\ officer[o].at = "read" /\ officer[o].request = "withdraw"
      /\ officer[o] \in OfficerStates
      /\ To(o, "patched")
      /\ \E r \in Recs : officer[o].rec = r
  BY DEF WithdrawRecommendation, At, Busy, IInv, TypeOK, OfficerStates, NoRequest
<1>r. PICK r \in Recs : officer[o].rec = r
  BY <1>0
<1>p. status[r] # "absent" /\ proposed[r] \in Proposals
  BY <1>0, <1>r DEF IInv, TypeOK, Records
<1>a. UNCHANGED <<status, proposed, blacklist, review, disturbed>>
  BY DEF WithdrawRecommendation
<1>3. /\ Alone' /\ InOrder' /\ Barred'
      /\ \A q \in Recs : q # r => (Holds(q)' <=> Holds(q))
      /\ TopicOf(r) \notin disturbed => Holds(r) /\ ~Holds(r)'
  BY <1>0, <1>r, <1>a, PatchStep
<1>4. CASE /\ proposed[r] \in MissingRules
           /\ regulatory_db' = [u \in Profiles |-> [c \in Clauses |->
                  IF SameName(c, TopicOf(r)) THEN 0 ELSE regulatory_db[u][c]]]
           /\ swept' = swept \cup Namesakes(r)
           /\ UNCHANGED few_shot
  <2>0. TopicOf(r) \in Clauses /\ Default \in Profiles
    BY <1>4, ProposalsAssumption, ProfilesAssumption DEF TopicOf
  <2>1. TypeOK'
    BY <1>0, <1>4, <1>a, <2>0 DEF IInv, TypeOK, To, OfficerStates, Namesakes
  <2>2. NoDuplicateClause'
    BY <1>4, <2>0 DEF IInv, NoDuplicateClause, TypeOK
  <2>3. Records'
    BY <1>0, <1>4, <1>a DEF IInv, Records, To, Busy, TypeOK, OfficerStates
  <2>4. InForce'
    <3>0. \A c \in Clauses : regulatory_db'[Default][c] =
             IF SameName(c, TopicOf(r)) THEN 0 ELSE regulatory_db[Default][c]
      BY <1>4, <2>0
    <3>a. SameName(TopicOf(r), TopicOf(r))
      BY DEF SameName
    <3>1. \A q \in Recs : (proposed[q] \in Proposals \ MissingRules /\ TopicOf(q) \notin disturbed) =>
             few_shot[q] = IF Holds(q)' THEN 1 ELSE 0
      BY <1>3, <1>4 DEF IInv, InForce
    <3>2. \A q \in Recs \ swept' :
             (/\ proposed[q] \in MissingRules
              /\ TopicOf(q) \notin disturbed /\ Holds(q)') =>
                /\ q \notin swept /\ Holds(q)
                /\ TopicOf(q) \in Clauses /\ ~SameName(TopicOf(q), TopicOf(r))
      <4>1. \A q \in Recs : (TopicOf(q) \notin disturbed /\ Holds(q)') => Holds(q) /\ q # r
        BY <1>3
      <4>2. \A q \in Recs : proposed[q] \in MissingRules => TopicOf(q) \in Clauses
        BY ProposalsAssumption DEF TopicOf
      <4>3. \A q \in Recs \ swept' : (q # r /\ proposed[q] \in MissingRules) =>
               /\ q \notin swept
               /\ SameName(TopicOf(q), TopicOf(r)) =>
                     TopicOf(q) = TopicOf(r) /\ r \notin swept
        BY <1>4 DEF Namesakes
      <4>4. \A q \in Recs \ swept :
               (/\ proposed[q] \in MissingRules
                /\ TopicOf(q) = TopicOf(r) /\ r \notin swept
                /\ TopicOf(q) \notin disturbed /\ Holds(q)) => q = r
        BY <1>3, <1>4 DEF IInv, InForce
      <4> QED
        BY <4>1, <4>2, <4>3, <4>4
    <3>3. \A q \in Recs \ swept' :
             (proposed[q] \in MissingRules /\ TopicOf(q) \notin disturbed /\ Holds(q)') =>
                regulatory_db'[Default][TopicOf(q)] = 1
      BY <3>0, <3>2 DEF IInv, InForce
    <3>4. \A q1, q2 \in Recs \ swept' :
             (/\ proposed[q1] \in MissingRules /\ proposed[q2] \in MissingRules
              /\ TopicOf(q1) = TopicOf(q2) /\ TopicOf(q1) \notin disturbed
              /\ Holds(q1)' /\ Holds(q2)') => q1 = q2
      BY <3>2 DEF IInv, InForce
    <3>5. \A c \in Clauses : (/\ c \notin disturbed /\ c \notin Shipped[Default]
                              /\ regulatory_db'[Default][c] > 0) =>
             \E q \in Recs : proposed[q] \in MissingRules /\ TopicOf(q) = c /\ Holds(q)'
      <4> SUFFICES ASSUME NEW c \in Clauses, c \notin disturbed, c \notin Shipped[Default],
                          regulatory_db'[Default][c] > 0
                   PROVE  \E q \in Recs : proposed[q] \in MissingRules /\ TopicOf(q) = c /\ Holds(q)'
        OBVIOUS
      <4>1. ~SameName(c, TopicOf(r)) /\ regulatory_db[Default][c] > 0
        BY <3>0
      <4>2. c # TopicOf(r)
        BY <3>a, <4>1
      <4>3. PICK q \in Recs : proposed[q] \in MissingRules /\ TopicOf(q) = c /\ Holds(q)
        BY <4>1 DEF IInv, InForce
      <4> QED
        BY <1>3, <4>2, <4>3
    <3> QED
      BY <1>a, <1>4, <3>1, <3>3, <3>4, <3>5 DEF InForce, TopicOf
  <2> QED
    BY <1>3, <1>4, <2>1, <2>2, <2>3, <2>4 DEF IInv
<1>5. CASE /\ proposed[r] \notin MissingRules
           /\ few_shot' = [few_shot EXCEPT ![r] = 0]
           /\ UNCHANGED <<regulatory_db, swept>>
  <2>1. TypeOK'
    BY <1>0, <1>5, <1>a DEF IInv, TypeOK, To, OfficerStates
  <2>2. NoDuplicateClause'
    BY <1>5 DEF IInv, NoDuplicateClause
  <2>3. Records'
    BY <1>0, <1>p, <1>5, <1>a DEF IInv, Records, To, Busy, TypeOK, OfficerStates
  <2>4. InForce'
    <3>1. \A q \in Recs : (proposed[q] \in Proposals \ MissingRules /\ TopicOf(q) \notin disturbed) =>
             few_shot'[q] = IF Holds(q)' THEN 1 ELSE 0
      BY <1>p, <1>3, <1>5 DEF IInv, InForce, TypeOK
    <3>2. \A q \in Recs : (proposed[q] \in MissingRules) => (Holds(q)' <=> Holds(q))
      BY <1>3, <1>5
    <3> QED
      BY <1>a, <1>5, <3>1, <3>2 DEF IInv, InForce, TopicOf
  <2> QED
    BY <1>3, <1>5, <2>1, <2>2, <2>3, <2>4 DEF IInv
<1> QED
  BY <1>r, <1>4, <1>5 DEF WithdrawRecommendation, RemoveClause

\* An approval or a withdrawal sets the status: responsibilities stay.
LEMMA FinishPatchStep ==
    ASSUME IInv, NEW o \in Officers, FinishPatch(o)
    PROVE  IInv'
<1>0. /\ Busy(o) /\ officer[o].at = "patched" /\ officer[o] \in OfficerStates
      /\ officer[o].request \in {"approve", "withdraw"}
      /\ \E r \in Recs : officer[o].rec = r
  BY DEF FinishPatch, At, Busy, IInv, TypeOK, OfficerStates, NoRequest
<1>r. PICK r \in Recs : officer[o].rec = r
  BY <1>0
<1>a. /\ UNCHANGED <<proposed, regulatory_db, few_shot, blacklist, review, swept, disturbed>>
      /\ Done(o)
      /\ status' = [status EXCEPT ![r] =
                       IF officer[o].request = "approve" THEN "approved" ELSE "undone"]
  BY <1>0, <1>r DEF FinishPatch, At, SetStatus
<1>b. \A q \in Recs : q # r => status'[q] = status[q]
  BY <1>a DEF IInv, TypeOK
<1>1. TypeOK'
  BY <1>a DEF IInv, TypeOK, Done, Statuses
<1>2. NoDuplicateClause'
  BY <1>a DEF IInv, NoDuplicateClause
<1>3. Records'
  BY <1>0, <1>r, <1>a DEF IInv, Records, Done, Busy, TypeOK, NoRequest
<1>4. Alone'
  BY <1>0, <1>a, StillAlone
<1>5. InOrder'
  BY <1>0, <1>r, <1>a, ActingAlone DEF IInv, InOrder, Done, TypeOK, Busy, Expected,
     TopicOf, HasPending, Reviewing, NoRequest
<1>6. \A q \in Recs : q # r => (Holds(q)' <=> Holds(q)) /\ (Bars(q)' <=> Bars(q))
  BY <1>0, <1>r, <1>a, <1>b, OfficerMoves
<1>7. ASSUME TopicOf(r) \notin disturbed
      PROVE  (Holds(r)' <=> Holds(r)) /\ ~Bars(r)' /\ ~Bars(r)
  <2>1. status[r] = Expected("patched", officer[o].request)
    BY <1>0, <1>r, <1>7, ActingAlone
  <2>2. \A a \in {"patched", "marked"}, request \in Requests :
           /\ Has(a, request, r) <=> officer[o].at = a /\ officer[o].request = request
           /\ ~Has(a, request, r)'
    BY <1>0, <1>r, <1>a, <1>b, <1>7, OfficerMoves
  <2> QED
    BY <1>0, <1>a, <2>1, <2>2 DEF Holds, Bars, Requests, Expected, ActsOn, IInv, TypeOK
<1>8. InForce' /\ Barred'
  BY <1>6, <1>7, <1>a, SameResponsibilities DEF IInv, TypeOK
<1> QED
  BY <1>1, <1>2, <1>3, <1>4, <1>5, <1>8 DEF IInv

\* A rejection or a reopening sets the status: the blacklist is not yet due.
LEMMA MarkFirstStep ==
    ASSUME IInv, NEW o \in Officers, MarkFirst(o)
    PROVE  IInv'
<1>0. /\ Busy(o) /\ officer[o].at = "read" /\ officer[o] \in OfficerStates
      /\ officer[o].request \in {"reject", "reopen"}
      /\ \E r \in Recs : officer[o].rec = r
  BY DEF MarkFirst, At, Busy, IInv, TypeOK, OfficerStates, NoRequest
<1>r. PICK r \in Recs : officer[o].rec = r
  BY <1>0
<1>a. /\ UNCHANGED <<proposed, regulatory_db, few_shot, blacklist, review, swept, disturbed>>
      /\ To(o, "marked")
      /\ status' = [status EXCEPT ![r] =
                       IF officer[o].request = "reject" THEN "rejected" ELSE "pending"]
  BY <1>0, <1>r DEF MarkFirst, At, SetStatus
<1>b. \A q \in Recs : q # r => status'[q] = status[q]
  BY <1>a DEF IInv, TypeOK
<1>1. TypeOK'
  BY <1>0, <1>a DEF IInv, TypeOK, To, Statuses, OfficerStates
<1>2. NoDuplicateClause'
  BY <1>a DEF IInv, NoDuplicateClause
<1>3. Records'
  BY <1>0, <1>r, <1>a DEF IInv, Records, To, Busy, TypeOK, OfficerStates
<1>4. Alone'
  BY <1>0, <1>a, StillAlone
<1>5. InOrder'
  BY <1>0, <1>r, <1>a, ActingAlone DEF IInv, InOrder, To, TypeOK, Busy, Expected,
     TopicOf, HasPending, Reviewing, OfficerStates
<1>6. \A q \in Recs : q # r => (Holds(q)' <=> Holds(q)) /\ (Bars(q)' <=> Bars(q))
  BY <1>0, <1>r, <1>a, <1>b, OfficerMoves
<1>7. ASSUME TopicOf(r) \notin disturbed
      PROVE  /\ ~Holds(r)' /\ ~Holds(r) /\ (Bars(r)' <=> Bars(r))
             /\ status[r] \in {"pending", "rejected"}
  <2>1. status[r] = Expected("read", officer[o].request)
    BY <1>0, <1>r, <1>7, ActingAlone
  <2>2. \A a \in {"patched", "marked"}, request \in Requests :
           /\ Has(a, request, r) <=> officer[o].at = a /\ officer[o].request = request
           /\ Has(a, request, r)' <=> "marked" = a /\ officer[o].request = request
    BY <1>0, <1>r, <1>a, <1>b, <1>7, OfficerMoves
  <2> QED
    BY <1>0, <1>a, <2>1, <2>2 DEF Holds, Bars, Requests, Expected, ActsOn, IInv, TypeOK
<1>8. InForce' /\ Barred'
  BY <1>6, <1>7, <1>a, SameResponsibilities DEF IInv, TypeOK
<1> QED
  BY <1>1, <1>2, <1>3, <1>4, <1>5, <1>8 DEF IInv

\* A rejection or a reopening reaches the blacklist.
LEMMA UpdateBlacklistStep ==
    ASSUME IInv, NEW o \in Officers, UpdateBlacklist(o)
    PROVE  IInv'
<1>0. /\ Busy(o) /\ officer[o].at = "marked" /\ officer[o] \in OfficerStates
      /\ officer[o].request \in {"reject", "reopen"}
      /\ \E r \in Recs : officer[o].rec = r
  BY DEF UpdateBlacklist, At, Busy, IInv, TypeOK, OfficerStates, NoRequest
<1>r. PICK r \in Recs : officer[o].rec = r
  BY <1>0
<1>p. status[r] # "absent" /\ proposed[r] \in Proposals
  BY <1>0, <1>r DEF IInv, TypeOK, Records
<1>a. /\ UNCHANGED <<status, proposed, regulatory_db, few_shot, review, swept, disturbed>>
      /\ Done(o)
      /\ blacklist' = IF officer[o].request = "reject" THEN blacklist \cup {proposed[r]}
                      ELSE blacklist \ {proposed[r]}
  BY <1>0, <1>r DEF UpdateBlacklist, At, AddToBlacklist, RemoveFromBlacklist
<1>1. TypeOK'
  BY <1>p, <1>a DEF IInv, TypeOK, Done
<1>2. NoDuplicateClause'
  BY <1>a DEF IInv, NoDuplicateClause
<1>3. Records'
  BY <1>0, <1>a DEF IInv, Records, Done, Busy, TypeOK, NoRequest
<1>4. Alone'
  BY <1>0, <1>a, StillAlone
<1>5. InOrder'
  <2>1. \A x \in Officers : (Busy(x)' /\ TopicOf(officer'[x].rec) \notin disturbed) =>
           status[officer'[x].rec] = Expected(officer'[x].at, officer'[x].request)
    BY <1>a DEF IInv, InOrder, Done, TypeOK, Busy, TopicOf, NoRequest
  <2>2. ASSUME NEW v \in Reviews, Reviewing(v), Topic[review[v].proposal] \notin disturbed
        PROVE  /\ review[v].proposal \notin blacklist'
               /\ review[v].at = "not_pending" => ~HasPending(review[v].proposal)
    BY <1>0, <1>r, <1>a, <2>2 DEF IInv, InOrder, Alone, TopicOf
  <2> QED
    BY <1>a, <2>1, <2>2 DEF InOrder, TopicOf, Reviewing, HasPending
<1>6. \A q \in Recs : q # r => (Holds(q)' <=> Holds(q)) /\ (Bars(q)' <=> Bars(q))
  BY <1>0, <1>r, <1>a, OfficerMoves
<1>7. ASSUME TopicOf(r) \notin disturbed
      PROVE  /\ ~Holds(r)' /\ ~Holds(r)
             /\ Bars(r)' <=> officer[o].request = "reject"
             /\ status[r] \in {"pending", "rejected"}
             /\ Bars(r) <=> officer[o].request = "reopen"
  <2>1. status[r] = Expected("marked", officer[o].request)
    BY <1>0, <1>r, <1>7, ActingAlone
  <2>2. \A a \in {"patched", "marked"}, request \in Requests :
           /\ Has(a, request, r) <=> officer[o].at = a /\ officer[o].request = request
           /\ ~Has(a, request, r)'
    BY <1>0, <1>r, <1>a, <1>7, OfficerMoves
  <2> QED
    BY <1>0, <1>a, <2>1, <2>2 DEF Holds, Bars, Requests, Expected
<1>8. InForce'
  BY <1>6, <1>7, <1>a DEF IInv, InForce, TopicOf
<1>9. Barred'
  <2>1. ASSUME NEW p \in Proposals, Topic[p] \notin disturbed
        PROVE  p \in blacklist' <=> \E q \in Recs : proposed[q] = p /\ Bars(q)'
    <3>1. CASE p # proposed[r]
      BY <1>6, <1>a, <2>1, <3>1 DEF IInv, Barred
    <3>2. CASE p = proposed[r] /\ officer[o].request = "reject"
      BY <1>7, <1>a, <2>1, <3>2 DEF TopicOf
    <3>3. CASE p = proposed[r] /\ officer[o].request = "reopen"
      <4>1. ASSUME NEW q \in Recs, q # r, proposed[q] = p, Bars(q)
            PROVE  FALSE
        <5>1. status[r] = "pending" /\ status[q] = "rejected"
          BY <1>0, <1>r, <1>6, <2>1, <3>3, <4>1, ActingAlone
             DEF Expected, Bars, Has, Busy, TopicOf
        <5> QED
          BY <2>1, <3>3, <4>1, <5>1 DEF IInv, Barred, TopicOf
      <4> QED
        BY <1>6, <1>7, <1>a, <2>1, <3>3, <4>1 DEF TopicOf
    <3> QED
      BY <1>0, <3>1, <3>2, <3>3
  <2> QED
    BY <1>a, <2>1 DEF IInv, Barred, TopicOf
<1> QED
  BY <1>1, <1>2, <1>3, <1>4, <1>5, <1>8, <1>9 DEF IInv

\* A request fails.
LEMMA RequestFailsStep ==
    ASSUME IInv, NEW o \in Officers, RequestFails(o)
    PROVE  IInv'
<1>1. TopicOf(officer[o].rec) \in Topics
  BY DEF RequestFails, IInv, TypeOK, Records, Busy, OfficerStates, NoRequest, Topics, TopicOf
<1>2. /\ disturbed \subseteq disturbed' /\ disturbed' \subseteq Topics
      /\ HalfDone(o) => TopicOf(officer[o].rec) \in disturbed'
  BY <1>1 DEF RequestFails, IInv, TypeOK
<1> QED
  BY <1>2, OfficerStops DEF RequestFails

-----------------------------------------------------------------------------
\* A step of a review before it inserts.
LEMMA ReviewLooks ==
    ASSUME IInv, UNCHANGED <<stores, officer, swept>>,
           disturbed \subseteq disturbed', TypeOK', Alone', InOrder'
    PROVE  IInv'
<1> USE DEF IInv, stores
<1>1. NoDuplicateClause' /\ Records'
  BY DEF NoDuplicateClause, Records, Busy
<1>2. \A q \in Recs : (Holds(q)' <=> Holds(q)) /\ (Bars(q)' <=> Bars(q))
  BY DEF Holds, Bars, Has
<1>3. InForce' /\ Barred'
  BY <1>2, SameResponsibilities
<1> QED
  BY <1>1, <1>3

LEMMA ReviewProposalStep ==
    ASSUME IInv, NEW v \in Reviews, NEW p \in Proposals, ReviewProposal(v, p)
    PROVE  IInv'
<1>0. /\ disturbed \subseteq disturbed'
      /\ UNCHANGED <<stores, officer, swept>>
  BY DEF ReviewProposal, Begins, stores
<1>1. TypeOK'
  BY DEF IInv, ReviewProposal, stores, TypeOK, ReviewStates, Begins, Topics
<1>2. /\ review'[v] = [at |-> "not_blacklisted", proposal |-> p]
      /\ \A w \in Reviews : w # v => review'[w] = review[w]
      /\ p \notin blacklist \/ Topic[p] \in disturbed'
  BY DEF IInv, TypeOK, ReviewProposal
<1>3. \/ Topic[p] \in disturbed'
      \/ /\ \A o \in Officers : Busy(o) => TopicOf(officer[o].rec) # Topic[p]
         /\ \A w \in Reviews : Reviewing(w) => Topic[review[w].proposal] # Topic[p]
  BY DEF ReviewProposal, Begins, OfficersOn, ReviewsOn
<1>4. /\ \A o \in Officers : (Busy(o)' <=> Busy(o)) /\ officer'[o] = officer[o]
      /\ \A w \in Reviews : w # v => (Reviewing(w)' <=> Reviewing(w))
      /\ \A r : TopicOf(r)' = TopicOf(r)
      /\ \A q : HasPending(q)' <=> HasPending(q)
  BY <1>0, <1>2 DEF Busy, Reviewing, stores, TopicOf, HasPending
<1>5. Alone'
  BY <1>0, <1>2, <1>3, <1>4 DEF IInv, Alone
<1>6. InOrder'
  <2>1. ASSUME NEW o \in Officers, Busy(o)', TopicOf(officer[o].rec) \notin disturbed'
        PROVE  status[officer[o].rec] = Expected(officer[o].at, officer[o].request)
    BY <1>0, <1>4, <2>1 DEF IInv, InOrder
  <2>2. ASSUME NEW w \in Reviews, Reviewing(w)',
               Topic[review'[w].proposal] \notin disturbed'
        PROVE  /\ review'[w].proposal \notin blacklist
               /\ review'[w].at = "not_pending" => ~HasPending(review'[w].proposal)
    BY <1>0, <1>2, <1>4, <2>2 DEF IInv, InOrder
  <2> QED
    BY <1>0, <1>4, <2>1, <2>2 DEF InOrder, stores
<1> QED
  BY <1>0, <1>1, <1>5, <1>6, ReviewLooks

LEMMA ReviewPendingStep ==
    ASSUME IInv, NEW v \in Reviews, ReviewPending(v)
    PROVE  IInv'
<1>0. /\ disturbed \subseteq disturbed'
      /\ UNCHANGED <<stores, officer, swept>>
  BY DEF ReviewPending, stores
<1>1. TypeOK'
  BY DEF IInv, ReviewPending, stores, TypeOK, ReviewStates, NoReview, Topics
<1>2. /\ review \in [Reviews -> ReviewStates \cup {NoReview}]
      /\ review[v] \in ReviewStates
  BY DEF IInv, TypeOK, ReviewPending, ReviewStates, NoReview
<1>3. /\ \A w \in Reviews : w # v => review'[w] = review[w]
      /\ \/ review'[v] = NoReview
         \/ /\ review'[v] = [review[v] EXCEPT !.at = "not_pending"]
            /\ \/ ~HasPending(review[v].proposal)
               \/ Topic[review[v].proposal] \in disturbed'
  BY <1>2 DEF ReviewPending
<1>4. \A w \in Reviews : Reviewing(w)' =>
         /\ Reviewing(w)
         /\ review'[w].proposal = review[w].proposal
  BY <1>2, <1>3 DEF Reviewing, NoReview, ReviewStates
<1>5. /\ \A o \in Officers : (Busy(o)' <=> Busy(o)) /\ officer'[o] = officer[o]
      /\ \A r : TopicOf(r)' = TopicOf(r)
      /\ \A p : HasPending(p)' <=> HasPending(p)
  BY <1>0 DEF Busy, stores, TopicOf, HasPending
<1>6. Alone'
  BY <1>0, <1>4, <1>5 DEF IInv, Alone
<1>7. InOrder'
  <2>1. ASSUME NEW o \in Officers, Busy(o)', TopicOf(officer[o].rec) \notin disturbed'
        PROVE  status[officer[o].rec] = Expected(officer[o].at, officer[o].request)
    BY <1>0, <1>5, <2>1 DEF IInv, InOrder
  <2>2. ASSUME NEW w \in Reviews, Reviewing(w)',
               Topic[review'[w].proposal] \notin disturbed'
        PROVE  /\ review'[w].proposal \notin blacklist
               /\ review'[w].at = "not_pending" => ~HasPending(review'[w].proposal)
    BY <1>0, <1>3, <1>4, <2>2 DEF IInv, InOrder, Reviewing, NoReview
  <2> QED
    BY <1>0, <1>5, <2>1, <2>2 DEF InOrder, stores
<1> QED
  BY <1>0, <1>1, <1>6, <1>7, ReviewLooks

LEMMA ReviewStopsStep ==
    ASSUME IInv, NEW v \in Reviews, ReviewStops(v)
    PROVE  IInv'
<1> USE DEF IInv, ReviewStops, stores
<1>1. TypeOK'
  BY DEF TypeOK
<1>2. Alone'
  BY DEF Alone, TopicOf, TypeOK, Busy, Reviewing, NoReview
<1>3. InOrder'
  BY DEF InOrder, TopicOf, TypeOK, Busy, Reviewing, NoReview, HasPending
<1> QED
  BY <1>1, <1>2, <1>3, ReviewLooks

\* A review inserts its proposal.  On an undisturbed topic what it has seen
\* still holds: the proposal is neither pending nor on the blacklist.
LEMMA ReviewCreateStep ==
    ASSUME IInv, NEW v \in Reviews, NEW r \in Recs, ReviewCreate(v, r)
    PROVE  IInv'
<1> DEFINE p == review[v].proposal
<1>0. /\ Reviewing(v) /\ p \in Proposals
      /\ review[v].at = "not_pending"
      /\ status[r] = "absent" /\ proposed[r] = Nothing
  BY DEF ReviewCreate, CreateRecommendation, Reviewing, IInv, TypeOK, Records,
     ReviewStates, NoReview
<1>p. PICK q \in Proposals : q = p
  BY <1>0
<1>a. /\ UNCHANGED <<regulatory_db, few_shot, blacklist, officer, swept, disturbed>>
      /\ review' = [review EXCEPT ![v] = NoReview]
      /\ status' = [status EXCEPT ![r] = "pending"]
      /\ proposed' = [proposed EXCEPT ![r] = q]
  BY <1>p DEF ReviewCreate, CreateRecommendation
<1>b. /\ proposed'[r] = q /\ status'[r] = "pending"
      /\ \A x \in Recs : x # r => proposed'[x] = proposed[x] /\ status'[x] = status[x]
      /\ \A x \in Recs : x # r => TopicOf(x)' = TopicOf(x)
  BY <1>a DEF IInv, TypeOK, TopicOf
<1>c. \A o \in Officers : Busy(o) => officer[o].rec \in Recs /\ officer[o].rec # r
  BY <1>0 DEF IInv, TypeOK, Records, Busy, OfficerStates, NoRequest
<1>1. TypeOK'
  BY <1>a DEF IInv, TypeOK, Statuses
<1>2. NoDuplicateClause'
  BY <1>a DEF IInv, NoDuplicateClause
<1>3. Records'
  BY <1>0, <1>a, <1>b, <1>c, ProposalsAssumption DEF IInv, Records, Busy, TypeOK
<1>4. Alone'
  BY <1>0, <1>a, <1>b, <1>c DEF IInv, Alone, Busy, Reviewing, NoReview, TypeOK
<1>5. InOrder'
  <2>1. \A o \in Officers : (Busy(o) /\ TopicOf(officer[o].rec)' \notin disturbed) =>
           status'[officer[o].rec] = Expected(officer[o].at, officer[o].request)
    <3> SUFFICES ASSUME NEW o \in Officers, Busy(o), TopicOf(officer[o].rec)' \notin disturbed
                 PROVE  status'[officer[o].rec] = Expected(officer[o].at, officer[o].request)
      OBVIOUS
    <3>1. PICK x \in Recs : x = officer[o].rec /\ x # r
      BY <1>c
    <3>2. TopicOf(x)' = TopicOf(x) /\ TopicOf(x)' = TopicOf(officer[o].rec)'
      BY <1>a, <1>b, <3>1 DEF TopicOf
    <3> QED
      BY <1>b, <3>1, <3>2 DEF IInv, InOrder
  <2>2. ASSUME NEW w \in Reviews, Reviewing(w)', Topic[review'[w].proposal] \notin disturbed
        PROVE  /\ review'[w].proposal \notin blacklist
               /\ review'[w].at = "not_pending" => ~HasPending(review[w].proposal)'
    <3>1. w # v /\ review'[w] = review[w] /\ Reviewing(w)
      BY <1>a, <2>2 DEF IInv, TypeOK, Reviewing, NoReview
    <3>2. review[w].proposal # q
      BY <1>0, <1>p, <2>2, <3>1 DEF IInv, Alone
    <3> QED
      BY <1>b, <2>2, <3>1, <3>2 DEF IInv, InOrder, HasPending
  <2> QED
    BY <1>a, <2>1, <2>2 DEF InOrder, Busy
<1>6. \A x \in Recs : x # r => (Holds(x)' <=> Holds(x)) /\ (Bars(x)' <=> Bars(x))
  BY <1>a, <1>b DEF Holds, Bars, Has
<1>7. ~Holds(r)' /\ ~Bars(r)' /\ ~Holds(r) /\ ~Bars(r)
  BY <1>0, <1>a, <1>b, <1>c DEF Holds, Bars, Has, Busy
<1>8. InForce'
  BY <1>0, <1>a, <1>b, <1>6, <1>7, ProposalsAssumption DEF IInv, InForce, Records, TypeOK
<1>9. Barred'
  <2>1. ASSUME NEW x \in Proposals, Topic[x] \notin disturbed
        PROVE  x \in blacklist <=> \E y \in Recs : proposed'[y] = x /\ Bars(y)'
    BY <1>0, <1>b, <1>6, <1>7, <2>1, ProposalsAssumption DEF IInv, Barred
  <2>2. ASSUME NEW y \in Recs, y # r, proposed[y] = q, Topic[q] \notin disturbed,
               status[y] \in {"pending", "rejected"}
        PROVE  FALSE
    <3>1. q \notin blacklist /\ ~HasPending(q)
      BY <1>0, <1>p, <2>2 DEF IInv, InOrder
    <3>2. ~Has("marked", "reject", y)
      BY <1>0, <1>p, <2>2 DEF IInv, Alone, Has, Busy, TopicOf
    <3>3. status[y] = "rejected" /\ Bars(y)
      BY <2>2, <3>1, <3>2 DEF HasPending, Bars
    <3> QED
      BY <2>2, <3>1, <3>3 DEF IInv, Barred
  <2>3. ASSUME NEW x \in Recs, NEW y \in Recs, proposed'[x] = proposed'[y],
               status'[x] \in {"pending", "rejected"}, status'[y] \in {"pending", "rejected"},
               TopicOf(x)' \notin disturbed
        PROVE  x = y
    <3>1. CASE x # r /\ y # r
      BY <1>b, <2>3, <3>1 DEF IInv, Barred
    <3>2. CASE x = r \/ y = r
      BY <1>b, <2>2, <2>3, <3>2 DEF TopicOf
    <3> QED
      BY <3>1, <3>2
  <2> QED
    BY <1>a, <2>1, <2>3 DEF Barred
<1> QED
  BY <1>1, <1>2, <1>3, <1>4, <1>5, <1>8, <1>9 DEF IInv

-----------------------------------------------------------------------------
\* The process dies.
LEMMA CrashStep == ASSUME IInv, Crash PROVE IInv'
<1> USE DEF IInv, Crash, stores
<1>0. \A o \in Officers : ~Busy(o)'
  BY DEF Busy, NoRequest
<1>1. \A v \in Reviews : ~Reviewing(v)'
  BY DEF Reviewing, NoReview
<1>2. TypeOK'
  <2>1. \A o \in Officers : HalfDone(o) => TopicOf(officer[o].rec) \in Topics
    BY DEF TypeOK, Records, HalfDone, Busy, OfficerStates, NoRequest, Topics, TopicOf
  <2> QED
    BY <2>1 DEF TypeOK
<1>3. NoDuplicateClause' /\ Records' /\ Alone' /\ InOrder'
  BY <1>0, <1>1 DEF NoDuplicateClause, Records, Alone, InOrder
<1>4. \A q \in Recs : TopicOf(q) \notin disturbed' =>
         (Holds(q)' <=> Holds(q)) /\ (Bars(q)' <=> Bars(q))
  BY <1>0 DEF Holds, Bars, Has, Busy, HalfDone
<1>5. InForce' /\ Barred'
  BY <1>4, SameResponsibilities
<1> QED
  BY <1>2, <1>3, <1>5

-----------------------------------------------------------------------------
LEMMA NextIInv == IInv /\ [Next]_vars => IInv'
<1> SUFFICES ASSUME IInv, [Next]_vars PROVE IInv'
  OBVIOUS
<1>1. ASSUME NEW o \in Officers, Request(o) PROVE IInv'
  BY <1>1, ReadStep, ApplyStep, WithdrawStep, FinishPatchStep, MarkFirstStep,
     UpdateBlacklistStep, RequestFailsStep DEF Request
<1>2. ASSUME NEW v \in Reviews, Review(v) PROVE IInv'
  BY <1>2, ReviewProposalStep, ReviewPendingStep, ReviewCreateStep, ReviewStopsStep DEF Review
<1>3. CASE UNCHANGED vars
  <2>1. UNCHANGED <<stores, officer, swept>> /\ review' = review /\ disturbed' = disturbed
    BY <1>3 DEF vars, stores
  <2>2. TypeOK'
    BY <2>1 DEF IInv, TypeOK, stores
  <2>3. Alone'
    BY <2>1 DEF IInv, Alone, Busy, Reviewing, TopicOf, stores
  <2>4. InOrder'
    BY <2>1 DEF IInv, InOrder, Busy, Reviewing, TopicOf, HasPending, stores
  <2> QED
    BY <2>1, <2>2, <2>3, <2>4, ReviewLooks
<1> QED
  BY <1>1, <1>2, <1>3, CrashStep DEF Next

THEOREM InductiveInvariant == Spec => []IInv
BY InitIInv, NextIInv, PTL DEF Spec

\* The variables keep their types.
THEOREM TypeCorrect == Spec => []TypeOK
<1>1. IInv => TypeOK
  BY DEF IInv
<1> QED
  BY InductiveInvariant, <1>1, PTL

\* However many officers approve at the same moment, and whatever fails, no
\* profile lists a clause twice.
THEOREM OneLinePerClause == Spec => []NoDuplicateClause
<1>1. IInv => NoDuplicateClause
  BY DEF IInv
<1> QED
  BY InductiveInvariant, <1>1, PTL

\* On a settled topic an approved recommendation is in force, but for one whose
\* clause went with a namesake that somebody withdrew.
THEOREM ApprovalTakesEffect == Spec => []ApprovedInForce
<1>1. ASSUME IInv, NEW r \in Recs, status[r] = "approved", Settled(TopicOf(r)), r \notin swept
      PROVE  IF proposed[r] \in MissingRules
             THEN regulatory_db[Default][TopicOf(r)] = 1
             ELSE few_shot[r] = 1
  <2>1. Holds(r) /\ proposed[r] \in Proposals
    BY <1>1 DEF IInv, TypeOK, Records, Holds, Has, Settled, OfficersOn, Busy
  <2> QED
    BY <1>1, <2>1 DEF IInv, InForce, Settled
<1>2. IInv => ApprovedInForce
  BY <1>1 DEF ApprovedInForce
<1> QED
  BY InductiveInvariant, <1>2, PTL

\* On a settled topic nothing else is.
THEOREM NothingElseTakesEffect == Spec => []NothingElseInForce
<1>1. ASSUME IInv, NEW r \in Recs, Settled(TopicOf(r)), Holds(r)
      PROVE  status[r] = "approved"
  BY <1>1 DEF Holds, Has, Settled, OfficersOn, Busy
<1>2. ASSUME IInv, NEW c \in Clauses, Settled(c), c \notin Shipped[Default],
             regulatory_db[Default][c] > 0
      PROVE  \E r \in Recs : status[r] = "approved" /\ proposed[r] \in MissingRules
                                /\ TopicOf(r) = c
  BY <1>1, <1>2 DEF IInv, InForce, Settled
<1>3. ASSUME IInv, NEW r \in Recs, few_shot[r] > 0, Settled(TopicOf(r))
      PROVE  status[r] = "approved"
  BY <1>1, <1>3 DEF IInv, Records, InForce, Settled
<1>4. IInv => NothingElseInForce
  BY <1>2, <1>3 DEF NothingElseInForce
<1> QED
  BY InductiveInvariant, <1>4, PTL

\* On a settled topic the blacklist mirrors the rejections, and nothing waits
\* for an officer twice.
THEOREM BlacklistIsExact == Spec => []BlacklistMatchesRejections
<1>1. ASSUME IInv, NEW p \in Proposals, Settled(Topic[p])
      PROVE  /\ p \in blacklist <=> \E r \in Recs : status[r] = "rejected" /\ proposed[r] = p
             /\ \A r1, r2 \in Recs :
                   (/\ proposed[r1] = p /\ status[r1] \in {"pending", "rejected"}
                    /\ proposed[r2] = p /\ status[r2] \in {"pending", "rejected"}) => r1 = r2
  <2>1. \A r \in Recs : proposed[r] = p => (Bars(r) <=> status[r] = "rejected")
    BY <1>1 DEF Bars, Has, Settled, OfficersOn, Busy, TopicOf
  <2> QED
    BY <1>1, <2>1 DEF IInv, Barred, Settled, TopicOf
<1>2. IInv => BlacklistMatchesRejections
  BY <1>1 DEF BlacklistMatchesRejections
<1> QED
  BY InductiveInvariant, <1>2, PTL

\* What an officer sets a status to follows from what he read.
LEMMA StatusFollowsRead ==
    ASSUME IInv, NEW o \in Officers, FinishPatch(o) \/ MarkFirst(o), NEW r \in Recs,
           status'[r] # status[r], TopicOf(r)' \notin disturbed'
    PROVE  <<status[r], status'[r]>> \in
              {<<"pending", "approved">>, <<"pending", "rejected">>,
               <<"approved", "undone">>, <<"rejected", "pending">>}
<1>1. /\ Busy(o) /\ officer[o].at \in {"patched", "read"} /\ officer[o].rec = r
      /\ TopicOf(r) \notin disturbed
  BY DEF FinishPatch, MarkFirst, At, Busy, SetStatus, IInv, TypeOK, TopicOf
<1>2. status[r] = ActsOn[officer[o].request]
  BY <1>1, ActingAlone DEF Expected
<1> QED
  BY <1>1, <1>2 DEF FinishPatch, MarkFirst, At, SetStatus, ActsOn, IInv, TypeOK

\* A recommendation on an undisturbed topic moves only along the documented
\* edges; an undone one is never applied again.
THEOREM StatusLifecycle == Spec => Lifecycle
<1> DEFINE Edges == {<<"absent", "pending">>, <<"pending", "approved">>,
                     <<"pending", "rejected">>, <<"approved", "undone">>,
                     <<"rejected", "pending">>}
           Step == \A r \in Recs : (status'[r] # status[r] /\ TopicOf(r)' \notin disturbed') =>
                      <<status[r], status'[r]>> \in Edges
<1>1. ASSUME IInv, Next PROVE Step
  <2> SUFFICES ASSUME NEW r \in Recs, status'[r] # status[r], TopicOf(r)' \notin disturbed'
               PROVE  <<status[r], status'[r]>> \in Edges
    OBVIOUS
  <2>1. ASSUME NEW o \in Officers, Request(o) PROVE FinishPatch(o) \/ MarkFirst(o)
    BY <2>1 DEF Request, ReadRecommendation, ApplyRecommendation, WithdrawRecommendation,
       UpdateBlacklist, RequestFails, stores
  <2>2. ASSUME NEW v \in Reviews, Review(v) PROVE \E q \in Recs : ReviewCreate(v, q)
    BY <2>2 DEF Review, ReviewProposal, ReviewPending, ReviewStops, stores
  <2>3. ASSUME NEW v \in Reviews, NEW q \in Recs, ReviewCreate(v, q)
        PROVE  status[r] = "absent" /\ status'[r] = "pending"
    BY <1>1, <2>3 DEF ReviewCreate, CreateRecommendation, IInv, TypeOK
  <2>4. ~Crash
    BY DEF Crash, stores
  <2> QED
    BY <1>1, <2>1, <2>2, <2>3, <2>4, StatusFollowsRead DEF Next
<1>2. IInv /\ [Next]_vars => [Step]_vars
  BY <1>1
<1> HIDE DEF Step
<1>3. Spec => [][Step]_vars
  BY <1>2, InductiveInvariant, PTL DEF Spec
<1> QED
  BY <1>3 DEF Step, Lifecycle

-----------------------------------------------------------------------------
(* ReviewAgent implements Insights: whatever a stream meets on its way, it  *)
(* does to the stores what Insights says a review does.                     *)

CONSTANTS DocTypes, Subject, MinEvidence, NoType, Logs, Replies
VARIABLE agent

Agent == INSTANCE ReviewAgent

Listing == {"list", "checked", "clear"}

\* A stream in a list has items to go through, and is at a well-formed one of
\* the Subject's while it awaits a query about it.
StreamOK(s) ==
    /\ DOMAIN s = {"at", "todo", "doc", "answers", "items", "given"}
    /\ s.items \in Seq(Agent!Items)
    /\ s.at \in Listing => s.items # <<>>
    /\ s.at \in {"checked", "clear"} =>
          s.doc = Subject /\ Head(s.items).kind \in {"sound", "odd"}

StreamsOK ==
    /\ agent = [v \in Reviews |-> agent[v]]
    /\ \A v \in Reviews : StreamOK(agent[v])

\* What Insights sees of a stream.
View(s) ==
    CASE s.doc = Subject /\ s.at = "checked" ->
            [at |-> "not_blacklisted", proposal |-> Head(s.items).proposal]
      [] s.doc = Subject /\ s.at = "clear" ->
            [at |-> "not_pending", proposal |-> Head(s.items).proposal]
      [] OTHER -> NoReview

Goes(v, s) == agent' = [agent EXCEPT ![v] = s]

Quiet == UNCHANGED <<status, proposed, regulatory_db, few_shot, blacklist,
                     officer, swept, disturbed>>

LEMMA FreshOK ==
  ASSUME NEW at, at \notin Listing
  PROVE  StreamOK(Agent!Fresh(at)) /\ View(Agent!Fresh(at)) = NoReview
<1>1. <<>> \in Seq(Agent!Items)
  OBVIOUS
<1> QED
  BY <1>1 DEF StreamOK, View, Agent!Fresh, Listing

LEMMA ViewOfStreams ==
  ASSUME StreamsOK
  PROVE  /\ Agent!Review = [v \in Reviews |-> View(agent[v])]
         /\ \A v \in Reviews : \A s : Goes(v, s) =>
               Agent!Review' = [Agent!Review EXCEPT ![v] = View(s)]
<1>1. Agent!Review = [v \in Reviews |-> View(agent[v])]
  BY Zenon DEF Agent!Review, View, Agent!OnSubject, Agent!At, Agent!Item, NoReview,
               Nothing
<1>2. ASSUME NEW v \in Reviews, NEW s, Goes(v, s)
      PROVE  Agent!Review' = [Agent!Review EXCEPT ![v] = View(s)]
  <2>1. Agent!Review' = [w \in Reviews |-> View(agent'[w])]
    BY Zenon DEF Agent!Review, View, Agent!OnSubject, Agent!At, Agent!Item, NoReview,
                 Nothing
  <2>2. \A w \in Reviews : agent'[w] = IF w = v THEN s ELSE agent[w]
    BY <1>2 DEF Goes, StreamsOK
  <2>3. [w \in Reviews |-> View(agent'[w])]
          = [w \in Reviews |-> IF w = v THEN View(s) ELSE View(agent[w])]
    BY <2>2, Zenon
  <2> HIDE DEF View
  <2> QED
    BY <1>1, <2>1, <2>3
<1> QED
  BY <1>1, <1>2

LEMMA StreamGoes ==
  ASSUME StreamsOK, NEW v \in Reviews, NEW s, StreamOK(s), Goes(v, s)
  PROVE  StreamsOK'
<1>1. /\ agent' = [w \in Reviews |-> agent'[w]]
      /\ \A w \in Reviews : agent'[w] = IF w = v THEN s ELSE agent[w]
  BY DEF StreamsOK, Goes
<1>2. \A w \in Reviews : StreamOK(agent'[w])
  BY <1>1, Zenon DEF StreamsOK
<1> QED
  BY <1>1, <1>2, Zenon DEF StreamsOK, StreamOK

\* What is left of a list after an item.
Passed(s) ==
    [s EXCEPT !.at = IF Tail(s.items) = <<>> THEN "next" ELSE "list",
              !.items = Tail(s.items)]

LEMMA PassedOK ==
  ASSUME NEW s, StreamOK(s), s.at \in Listing
  PROVE  /\ StreamOK(Passed(s)) /\ View(Passed(s)) = NoReview
         /\ Passed(s).doc = s.doc /\ Passed(s).given = s.given
         /\ Passed(s).items = Tail(s.items) /\ Passed(s).at \in {"next", "list"}
         /\ Passed(s).at = "next" <=> Tail(s.items) = <<>>
<1>1. Tail(s.items) \in Seq(Agent!Items)
  BY DEF StreamOK
<1>2. /\ DOMAIN Passed(s) = DOMAIN s
      /\ Passed(s).at = IF Tail(s.items) = <<>> THEN "next" ELSE "list"
      /\ Passed(s).items = Tail(s.items)
      /\ Passed(s).doc = s.doc /\ Passed(s).given = s.given
  BY DEF Passed, StreamOK
<1> QED
  BY <1>1, <1>2 DEF StreamOK, View, Listing

\* The proposals that are still to come in a list, and those that have been
\* dealt with.
Due(s) == IF s.at \in Listing /\ s.doc = Subject THEN Agent!Proposed(s.items) ELSE {}
Dealt(s) == s.given \ Due(s)

LEMMA ProposedOneByOne ==
  ASSUME NEW items \in Seq(Agent!Items), items # <<>>
  PROVE  /\ Head(items) \in Agent!Items
         /\ Agent!Proposed(items) \subseteq Agent!Proposed(Tail(items)) \cup
               (IF Head(items).kind \in {"sound", "odd"} THEN {Head(items).proposal}
                                                         ELSE {})
<1>1. Len(items) \in Nat \ {0} /\ Head(items) = items[1]
      /\ items \in [1..Len(items) -> Agent!Items]
  OBVIOUS
<1>2. ASSUME NEW i \in DOMAIN items, i # 1, items[i].kind \in {"sound", "odd"}
      PROVE  items[i].proposal \in Agent!Proposed(Tail(items))
  <2>1. i - 1 \in DOMAIN Tail(items) /\ Tail(items)[i - 1] = items[i]
    BY <1>1, <1>2
  <2> QED
    BY <1>2, <2>1, Zenon DEF Agent!Proposed
<1>3. \A p \in Agent!Proposed(items) : \E i \in DOMAIN items :
         p = items[i].proposal /\ items[i].kind \in {"sound", "odd"}
  BY Zenon DEF Agent!Proposed
<1> QED
  BY <1>1, <1>2, <1>3

LEMMA PassedDealt ==
  ASSUME NEW s, StreamOK(s), s.at \in Listing
  PROVE  /\ s.doc # Subject \/ Head(s.items).kind \notin {"sound", "odd"}
               => Dealt(Passed(s)) \subseteq Dealt(s)
         /\ Dealt(Passed(s)) \subseteq Dealt(s) \cup {Head(s.items).proposal}
<1>1. Due(Passed(s)) = IF s.doc = Subject THEN Agent!Proposed(Tail(s.items)) ELSE {}
  <2>1. Agent!Proposed(<<>>) = {}
    BY DEF Agent!Proposed
  <2> QED
    BY <2>1, PassedOK DEF Due, Listing
<1>2. Due(s) = IF s.doc = Subject THEN Agent!Proposed(s.items) ELSE {}
  BY DEF Due
<1>3. s.items \in Seq(Agent!Items) /\ s.items # <<>>
  BY DEF StreamOK
<1>4. Agent!Proposed(s.items) \subseteq Agent!Proposed(Tail(s.items)) \cup
        (IF Head(s.items).kind \in {"sound", "odd"} THEN {Head(s.items).proposal} ELSE {})
  BY <1>3, ProposedOneByOne, Zenon
<1>5. Passed(s).given = s.given
  BY PassedOK
<1> QED
  BY <1>1, <1>2, <1>4, <1>5 DEF Dealt

\* A step of a stream that Insights does not see.
Unseen(v) ==
    \E s : /\ Goes(v, s) /\ StreamOK(s) /\ Quiet
           /\ View(agent[v]) = NoReview /\ View(s) = NoReview
           /\ Dealt(s) \subseteq Dealt(agent[v])

LEMMA EndsUnseen ==
  ASSUME NEW v \in Reviews, StreamsOK, NEW how \in {"broken", "stopped"},
         View(agent[v]) = NoReview, Agent!Ends(v, how)
  PROVE  Unseen(v)
<1> DEFINE s == Agent!Fresh(how)
<1>1. StreamOK(s) /\ View(s) = NoReview
  <2>1. how \notin Listing
    BY DEF Listing
  <2> QED
    BY <2>1, FreshOK
<1>2. Goes(v, s) /\ Quiet
  BY DEF Goes, Quiet, Agent!Ends, Agent!tables
<1>3. Dealt(s) = {}
  BY DEF Dealt, Agent!Fresh
<1> QED
  BY <1>1, <1>2, <1>3 DEF Unseen

LEMMA BetweenListsUnseen ==
  ASSUME NEW v \in Reviews, StreamsOK, agent[v].at \notin Listing, Quiet,
         NEW s, Goes(v, s), s.at \notin Listing, s.given = agent[v].given,
         s.items \in Seq(Agent!Items), DOMAIN s = DOMAIN agent[v]
  PROVE  Unseen(v)
<1>1. StreamOK(s)
  BY DEF StreamsOK, StreamOK, Listing
<1>2. View(agent[v]) = NoReview /\ View(s) = NoReview
  BY DEF View, Listing
<1>3. Dealt(s) \subseteq Dealt(agent[v])
  BY DEF Dealt, Due
<1> QED
  BY <1>1, <1>2, <1>3, Zenon DEF Unseen

LEMMA TypeStepsUnseen ==
  ASSUME NEW v \in Reviews, StreamsOK,
         \/ Agent!LoadCorrections(v) \/ Agent!NextType(v) \/ Agent!Finish(v)
         \/ Agent!Unreadable(v) \/ Agent!CallFails(v)
  PROVE  Unseen(v)
<1> DEFINE a == agent[v]
<1>1. /\ DOMAIN a = {"at", "todo", "doc", "answers", "items", "given"}
      /\ a.items \in Seq(Agent!Items)
      /\ agent = [w \in Reviews |-> agent[w]]
  BY DEF StreamsOK, StreamOK
<1>2. CASE Agent!LoadCorrections(v)
  <2>1. a.at \notin Listing /\ Quiet
    BY <1>2 DEF Agent!LoadCorrections, Agent!At, Agent!tables, Quiet, Listing
  <2>2. PICK todo :
           agent' = [agent EXCEPT ![v].at = "loaded", ![v].todo = todo]
    BY <1>2 DEF Agent!LoadCorrections
  <2> DEFINE s == [a EXCEPT !.at = "loaded", !.todo = todo]
  <2>3. Goes(v, s)
    BY <1>1, <2>2 DEF Goes
  <2>4. s.at = "loaded" /\ s.given = a.given /\ s.items = a.items
        /\ DOMAIN s = DOMAIN a /\ "loaded" \notin Listing
    BY <1>1 DEF Listing
  <2> HIDE DEF s
  <2> QED
    BY <1>1, <2>1, <2>3, <2>4, BetweenListsUnseen
<1>3. CASE Agent!NextType(v)
  <2>1. a.at \notin Listing /\ Quiet
    BY <1>3 DEF Agent!NextType, Agent!tables, Quiet, Listing
  <2> DEFINE s == [a EXCEPT !.at = "asking", !.todo = Tail(@), !.doc = Head(a.todo)]
  <2>2. Goes(v, s)
    BY <1>1, <1>3 DEF Goes, Agent!NextType
  <2>3. s.at = "asking" /\ s.given = a.given /\ s.items = a.items
        /\ DOMAIN s = DOMAIN a /\ "asking" \notin Listing
    BY <1>1 DEF Listing
  <2> HIDE DEF s
  <2> QED
    BY <1>1, <2>1, <2>2, <2>3, BetweenListsUnseen
<1>4. CASE Agent!Finish(v)
  <2>1. a.at \notin Listing /\ Quiet
    BY <1>4 DEF Agent!Finish, Agent!tables, Quiet, Listing
  <2> DEFINE s == [Agent!Fresh("done") EXCEPT !.given = a.given]
  <2>2. Goes(v, s)
    BY <1>4 DEF Goes, Agent!Finish
  <2>3. s.at = "done" /\ s.given = a.given /\ s.items = <<>>
        /\ DOMAIN s = DOMAIN a /\ "done" \notin Listing
    BY <1>1 DEF Listing, Agent!Fresh
  <2>4. <<>> \in Seq(Agent!Items)
    OBVIOUS
  <2> HIDE DEF s
  <2> QED
    BY <2>1, <2>2, <2>3, <2>4, BetweenListsUnseen
<1>5. CASE Agent!Unreadable(v)
  <2>1. a.at \notin Listing /\ Quiet
    BY <1>5 DEF Agent!Unreadable, Agent!At, Agent!tables, Quiet, Listing
  <2>2. PICK at \in {"asking", "next"}, answers \in {1 - a.answers} :
           agent' = [agent EXCEPT ![v].at = at, ![v].answers = answers]
    BY <1>5 DEF Agent!Unreadable
  <2> DEFINE s == [a EXCEPT !.at = at, !.answers = answers]
  <2>3. Goes(v, s)
    BY <1>1, <2>2 DEF Goes
  <2>4. s.at = at /\ s.given = a.given /\ s.items = a.items
        /\ DOMAIN s = DOMAIN a /\ at \notin Listing
    BY <1>1 DEF Listing
  <2> HIDE DEF s
  <2> QED
    BY <1>1, <2>1, <2>3, <2>4, BetweenListsUnseen
<1>6. CASE Agent!CallFails(v)
  <2>1. a.at \notin Listing /\ Quiet
    BY <1>6 DEF Agent!CallFails, Agent!At, Agent!tables, Quiet, Listing
  <2> DEFINE s == [a EXCEPT !.at = "next", !.answers = 0]
  <2>2. Goes(v, s)
    BY <1>1, <1>6 DEF Goes, Agent!CallFails
  <2>3. s.at = "next" /\ s.given = a.given /\ s.items = a.items
        /\ DOMAIN s = DOMAIN a /\ "next" \notin Listing
    BY <1>1 DEF Listing
  <2> HIDE DEF s
  <2> QED
    BY <1>1, <2>1, <2>2, <2>3, BetweenListsUnseen
<1> QED
  BY <1>2, <1>3, <1>4, <1>5, <1>6

LEMMA ReplyUnseen ==
  ASSUME NEW v \in Reviews, StreamsOK, Agent!Reply(v),
         Replies \subseteq Seq(Agent!Items) \ {<<>>}
  PROVE  Unseen(v)
<1> DEFINE a == agent[v]
<1>1. a.at \notin Listing /\ Quiet
  BY DEF Agent!Reply, Agent!At, Agent!tables, Quiet, Listing
<1> DEFINE Given(items) == a.given \cup
              IF a.doc = Subject THEN Agent!Proposed(items) ELSE {}
<1>2. PICK items \in Replies :
         agent' = [agent EXCEPT ![v].at = "list", ![v].items = items,
                      ![v].answers = 0, ![v].given = Given(items)]
  BY Zenon DEF Agent!Reply, Agent!OnSubject
<1> DEFINE given == Given(items)
           s == [a EXCEPT !.at = "list", !.items = items, !.answers = 0,
                          !.given = given]
<1>3. Goes(v, s)
  BY <1>2 DEF Goes, StreamsOK
<1>4. /\ s.at = "list" /\ s.items = items /\ s.given = given /\ s.doc = a.doc
      /\ DOMAIN s = DOMAIN a
  BY DEF StreamsOK, StreamOK
<1> HIDE DEF s
<1>5. StreamOK(s) /\ View(s) = NoReview
  BY <1>4 DEF StreamsOK, StreamOK, View
<1>6. View(a) = NoReview
  BY <1>1 DEF View, Listing
<1>7. Dealt(s) \subseteq Dealt(a)
  BY <1>1, <1>4 DEF Dealt, Due, Listing
<1> QED
  BY <1>1, <1>3, <1>5, <1>6, <1>7, Zenon DEF Unseen

LEMMA ListStepsUnseen ==
  ASSUME NEW v \in Reviews, StreamsOK, agent[v].at = "list", Quiet,
         agent[v].doc # Subject \/ Head(agent[v].items).kind = "unknown",
         Agent!PassOver(v)
  PROVE  Unseen(v)
<1> DEFINE a == agent[v]
<1>1. Goes(v, Passed(a))
  BY DEF Agent!PassOver, Agent!AfterItem, Goes, Passed
<1>2. StreamOK(a) /\ a.at \in Listing
  BY DEF StreamsOK, Listing
<1>3. StreamOK(Passed(a)) /\ View(Passed(a)) = NoReview
  BY <1>2, PassedOK
<1>4. Dealt(Passed(a)) \subseteq Dealt(a)
  BY <1>2, PassedDealt
<1>5. View(a) = NoReview
  BY DEF View
<1> QED
  BY <1>1, <1>3, <1>4, <1>5, Zenon DEF Unseen

\* What has become a recommendation.
Made == {proposed[r] : r \in {r \in Recs : status[r] # "absent"}}

\* Officers act on what there is, and only recommendations are blacklisted.
TablesOK ==
    /\ status \in [Recs -> Statuses]
    /\ proposed \in [Recs -> Proposals \cup {Nothing}]
    /\ officer \in [Officers -> OfficerStates \cup {NoRequest}]
    /\ \A o \in Officers : Busy(o) => status[officer[o].rec] # "absent"
    /\ blacklist \subseteq Made

\* What a step of a stream may do: nothing that Insights sees, or a step of
\* its review; and what it has done with is blacklisted or a recommendation.
StreamStep(v) ==
    \E s : /\ Goes(v, s) /\ StreamOK(s)
           /\ Dealt(s) \subseteq Dealt(agent[v]) \cup blacklist \cup Made'
           /\ \/ Quiet /\ View(s) = View(agent[v])
              \/ /\ Agent!Insights!Review(v)
                 /\ UNCHANGED <<regulatory_db, few_shot, blacklist, officer>>
                 /\ \/ UNCHANGED <<status, proposed>>
                    \/ \E r \in Recs, p \in Proposals :
                          Agent!Insights!CreateRecommendation(r, p)

LEMMA UnseenStep ==
  ASSUME NEW v \in Reviews, Unseen(v)
  PROVE  StreamStep(v)
  BY Zenon DEF Unseen, StreamStep

LEMMA IsBlacklistedStep ==
  ASSUME NEW v \in Reviews, StreamsOK, Agent!IsBlacklisted(v)
  PROVE  StreamStep(v)
<1> DEFINE a == agent[v]
           p == Head(a.items).proposal
           s == [a EXCEPT !.at = "checked"]
<1>1. /\ StreamOK(a) /\ a.at = "list" /\ a.at \in Listing /\ a.doc = Subject
      /\ Head(a.items).kind \in {"sound", "odd"}
      /\ UNCHANGED <<status, proposed, regulatory_db, few_shot, blacklist, officer, swept>>
  BY DEF StreamsOK, Listing, Agent!IsBlacklisted, Agent!At, Agent!Item,
         Agent!OnSubject, Agent!tables
<1>2. View(a) = NoReview
  BY <1>1 DEF View
<1>3. CASE p \in blacklist /\ Agent!PassOver(v) /\ UNCHANGED disturbed
  <2>1. Goes(v, Passed(a)) /\ Quiet
    BY <1>1, <1>3 DEF Agent!PassOver, Agent!AfterItem, Goes, Passed, Quiet
  <2>2. StreamOK(Passed(a)) /\ View(Passed(a)) = NoReview
    BY <1>1, PassedOK
  <2>3. Dealt(Passed(a)) \subseteq Dealt(a) \cup {p}
    BY <1>1, PassedDealt
  <2>4. Dealt(Passed(a)) \subseteq Dealt(a) \cup blacklist \cup Made'
    BY <1>3, <2>3, Zenon
  <2> QED
    BY <1>2, <2>1, <2>2, <2>4, Zenon DEF StreamStep
<1>4. CASE /\ agent' = [agent EXCEPT ![v].at = "checked"]
           /\ \/ p \notin blacklist /\ Agent!Insights!Begins(Topic[p])
              \/ /\ p \in blacklist /\ QueriesMayFail
                 /\ disturbed' = disturbed \cup {Topic[p]}
  <2>1. Goes(v, s)
    BY <1>4 DEF Goes, StreamsOK
  <2>2. /\ DOMAIN s = DOMAIN a /\ s.at = "checked" /\ s.items = a.items
        /\ s.doc = a.doc /\ s.given = a.given
    BY <1>1 DEF StreamOK
  <2> HIDE DEF s
  <2>3. StreamOK(s)
    BY <1>1, <2>2 DEF StreamOK
  <2>4. Dealt(s) = Dealt(a)
    BY <1>1, <2>2 DEF Dealt, Due, Listing
  <2>5. View(s) = [at |-> "not_blacklisted", proposal |-> p]
    BY <1>1, <2>2 DEF View
  <2>6. p \in Proposals
    BY <1>1, ProposedOneByOne DEF StreamOK, Agent!Items
  <2>7. Agent!Review[v] = NoReview
        /\ Agent!Review' = [Agent!Review EXCEPT ![v] =
                               [at |-> "not_blacklisted", proposal |-> p]]
    BY <1>2, <2>1, <2>5, ViewOfStreams
  <2>8. Agent!Insights!ReviewProposal(v, p)
    <3>1. ~ Agent!Insights!Reviewing(v)
      BY <2>7 DEF Agent!Insights!Reviewing, NoReview
    <3>2. UNCHANGED <<Agent!Insights!stores, officer, swept>>
      BY <1>1 DEF Agent!Insights!stores
    <3> HIDE DEF p
    <3> QED
      BY <1>4, <2>7, <3>1, <3>2, Zenon DEF Agent!Insights!ReviewProposal
  <2>9. Agent!Insights!Review(v)
    BY <2>6, <2>8, Zenon DEF Agent!Insights!Review
  <2> QED
    BY <1>1, <2>1, <2>3, <2>4, <2>9, Zenon DEF StreamStep
<1> QED
  BY <1>3, <1>4 DEF Agent!IsBlacklisted, Agent!Item

LEMMA HasPendingStep ==
  ASSUME NEW v \in Reviews, StreamsOK, Agent!HasPending(v)
  PROVE  StreamStep(v)
<1> DEFINE a == agent[v]
           p == Head(a.items).proposal
           s == [a EXCEPT !.at = "clear"]
<1>1. /\ StreamOK(a) /\ a.at = "checked" /\ a.at \in Listing /\ a.doc = Subject
      /\ UNCHANGED <<status, proposed, regulatory_db, few_shot, blacklist, officer, swept>>
  BY DEF StreamsOK, StreamOK, Listing, Agent!HasPending, Agent!At, Agent!tables
<1>2. Agent!Review[v] = [at |-> "not_blacklisted", proposal |-> p]
  BY <1>1, ViewOfStreams DEF View
<1>3. CASE /\ Agent!Insights!HasPending(p) /\ Agent!PassOver(v)
           /\ UNCHANGED disturbed
  <2>1. Goes(v, Passed(a))
    BY <1>3 DEF Agent!PassOver, Agent!AfterItem, Goes, Passed
  <2>2. StreamOK(Passed(a)) /\ View(Passed(a)) = NoReview
    BY <1>1, PassedOK
  <2>3. Dealt(Passed(a)) \subseteq Dealt(a) \cup {p}
    BY <1>1, PassedDealt
  <2>4. p \in Made'
    BY <1>1, <1>3 DEF Agent!Insights!HasPending, Made
  <2>5. Dealt(Passed(a)) \subseteq Dealt(a) \cup blacklist \cup Made'
    BY <2>3, <2>4, Zenon
  <2>6. Agent!Review' = [Agent!Review EXCEPT ![v] = NoReview]
    BY <2>1, <2>2, ViewOfStreams
  <2>7. Agent!Insights!ReviewPending(v)
    BY <1>1, <1>2, <1>3, <2>6
       DEF Agent!Insights!ReviewPending, Agent!Insights!stores, NoReview, Nothing,
           Agent!Insights!NoReview, Agent!Insights!Nothing
  <2>8. Agent!Insights!Review(v)
    BY <2>7, Zenon DEF Agent!Insights!Review
  <2> QED
    BY <1>1, <2>1, <2>2, <2>5, <2>8, Zenon DEF StreamStep
<1>4. CASE /\ agent' = [agent EXCEPT ![v].at = "clear"]
           /\ \/ ~ Agent!Insights!HasPending(p) /\ UNCHANGED disturbed
              \/ /\ Agent!Insights!HasPending(p) /\ QueriesMayFail
                 /\ disturbed' = disturbed \cup {Topic[p]}
  <2>1. Goes(v, s)
    BY <1>4 DEF Goes, StreamsOK
  <2>2. /\ DOMAIN s = DOMAIN a /\ s.at = "clear" /\ s.items = a.items
        /\ s.doc = a.doc /\ s.given = a.given
    BY <1>1 DEF StreamOK
  <2> HIDE DEF s
  <2>3. StreamOK(s)
    BY <1>1, <2>2 DEF StreamOK, Listing
  <2>4. Dealt(s) = Dealt(a)
    BY <1>1, <2>2 DEF Dealt, Due, Listing
  <2>5. View(s) = [at |-> "not_pending", proposal |-> p]
    BY <1>1, <2>2 DEF View
  <2>6. Agent!Review' = [Agent!Review EXCEPT ![v] =
                            [at |-> "not_pending", proposal |-> p]]
    BY <2>1, <2>5, ViewOfStreams
  <2>7. Agent!Review' = [Agent!Review EXCEPT ![v].at = "not_pending"]
    <3>1. [[at |-> "not_blacklisted", proposal |-> p] EXCEPT !.at = "not_pending"]
             = [at |-> "not_pending", proposal |-> p]
      OBVIOUS
    <3>2. Agent!Review = [w \in Reviews |-> Agent!Review[w]]
      BY ViewOfStreams
    <3> HIDE DEF p
    <3> QED
      BY <1>2, <2>6, <3>1, <3>2
  <2>8. Agent!Insights!ReviewPending(v)
    <3>1. UNCHANGED <<Agent!Insights!stores, officer, swept>>
      BY <1>1 DEF Agent!Insights!stores
    <3>2. Agent!Review[v].at = "not_blacklisted" /\ Agent!Review[v].proposal = p
      BY <1>2
    <3> HIDE DEF p
    <3> QED
      BY <1>4, <2>7, <3>1, <3>2 DEF Agent!Insights!ReviewPending
  <2>9. Agent!Insights!Review(v)
    BY <2>8, Zenon DEF Agent!Insights!Review
  <2> QED
    BY <1>1, <2>1, <2>3, <2>4, <2>9, Zenon DEF StreamStep
<1> QED
  BY <1>3, <1>4 DEF Agent!HasPending, Agent!Item

\* After its insert a stream goes on, or ends: what it awaits is over.
LEMMA AfterInsertGoes ==
  ASSUME NEW v \in Reviews, StreamsOK, agent[v].at \in Listing,
         Agent!AfterInsert(v)
  PROVE  \E s : /\ Goes(v, s) /\ StreamOK(s) /\ View(s) = NoReview
                /\ Dealt(s) \subseteq Dealt(agent[v]) \cup {Head(agent[v].items).proposal}
                /\ agent[v].doc # Subject => Dealt(s) \subseteq Dealt(agent[v])
<1> DEFINE a == agent[v]
<1>1. StreamOK(a)
  BY DEF StreamsOK
<1>2. CASE Head(a.items).kind = "odd"
  <2>1. Goes(v, Agent!Fresh("broken"))
    BY <1>2 DEF Agent!AfterInsert, Agent!Item, Goes
  <2>2. /\ StreamOK(Agent!Fresh("broken"))
        /\ View(Agent!Fresh("broken")) = NoReview
    <3>1. "broken" \notin Listing
      BY DEF Listing
    <3> QED
      BY <3>1, FreshOK
  <2>3. Dealt(Agent!Fresh("broken")) = {}
    BY DEF Dealt, Agent!Fresh
  <2> QED
    BY <2>1, <2>2, <2>3
<1>3. CASE Head(a.items).kind # "odd"
  <2>1. Goes(v, Passed(a))
    BY <1>3 DEF Agent!AfterInsert, Agent!Item, Agent!AfterItem, Goes, Passed
  <2>2. StreamOK(Passed(a)) /\ View(Passed(a)) = NoReview
    BY <1>1, PassedOK
  <2>3. /\ Dealt(Passed(a)) \subseteq Dealt(a) \cup {Head(a.items).proposal}
        /\ a.doc # Subject => Dealt(Passed(a)) \subseteq Dealt(a)
    BY <1>1, PassedDealt
  <2> QED
    BY <2>1, <2>2, <2>3, Zenon
<1> QED
  BY <1>2, <1>3

LEMMA CreateRecommendationStep ==
  ASSUME NEW v \in Reviews, StreamsOK, Agent!CreateRecommendation(v),
         status \in [Recs -> Statuses],
         proposed \in [Recs -> Proposals \cup {Nothing}]
  PROVE  StreamStep(v)
<1> DEFINE a == agent[v]
           p == Head(a.items).proposal
<1>1. /\ StreamOK(a) /\ a.at = "clear" /\ a.at \in Listing /\ a.doc = Subject
      /\ UNCHANGED <<regulatory_db, few_shot, blacklist, officer, swept, disturbed>>
      /\ Agent!AfterInsert(v)
  BY DEF StreamsOK, StreamOK, Listing, Agent!CreateRecommendation, Agent!At
<1>2. Agent!Review[v] = [at |-> "not_pending", proposal |-> p]
  BY <1>1, ViewOfStreams DEF View
<1>3. PICK s : /\ Goes(v, s) /\ StreamOK(s) /\ View(s) = NoReview
               /\ Dealt(s) \subseteq Dealt(a) \cup {p}
  BY <1>1, AfterInsertGoes
<1>4. PICK r \in Recs : Agent!Insights!CreateRecommendation(r, p)
  <2> DEFINE r == CHOOSE r \in Recs : status[r] = "absent"
  <2>1. r \in Recs
    BY DEF Agent!CreateRecommendation
  <2>2. Agent!Insights!CreateRecommendation(r, p)
    BY Zenon DEF Agent!CreateRecommendation, Agent!Item
  <2> HIDE DEF r
  <2> QED
    BY <2>1, <2>2
<1>5. p \in Proposals
  BY <1>1, ProposedOneByOne DEF StreamOK, Agent!Items
<1>6. p \in Made'
  <2>1. status'[r] = "pending" /\ proposed'[r] = p
    BY <1>4 DEF Agent!Insights!CreateRecommendation
  <2> HIDE DEF p
  <2> QED
    BY <2>1 DEF Made
<1>7. Agent!Insights!Review(v)
  <2>1. Agent!Review' = [Agent!Review EXCEPT ![v] = NoReview]
    BY <1>3, ViewOfStreams
  <2>2. Agent!Review[v].at = "not_pending" /\ Agent!Review[v].proposal = p
    BY <1>2
  <2>3. NoReview = Agent!Insights!NoReview
    BY DEF NoReview, Nothing, Agent!Insights!NoReview, Agent!Insights!Nothing
  <2> HIDE DEF p
  <2>4. Agent!Insights!ReviewCreate(v, r)
    BY <1>1, <1>4, <2>1, <2>2, <2>3 DEF Agent!Insights!ReviewCreate
  <2> QED
    BY <2>4, Zenon DEF Agent!Insights!Review
<1>8. Dealt(s) \subseteq Dealt(a) \cup blacklist \cup Made'
  BY <1>3, <1>6, Zenon
<1> QED
  BY <1>1, <1>3, <1>4, <1>5, <1>7, <1>8, Zenon DEF StreamStep

LEMMA StreamSteps ==
  ASSUME NEW v \in Reviews, StreamsOK, TablesOK,
         Replies \subseteq Seq(Agent!Items) \ {<<>>},
         Agent!LoadCorrections(v) \/ Agent!Proceed(v) \/ Agent!Stops(v)
  PROVE  StreamStep(v)
<1> DEFINE a == agent[v]
<1>1. CASE Agent!NoLlm(v) \/ Agent!Malformed(v) \/ Agent!Uncounted(v)
  <2>1. a.at \in {"loaded", "asking", "list"} /\ Agent!Ends(v, "broken")
    BY <1>1 DEF Agent!NoLlm, Agent!Malformed, Agent!Uncounted, Agent!At
  <2>2. View(a) = NoReview
    BY <2>1 DEF View
  <2> QED
    BY <2>1, <2>2, EndsUnseen, UnseenStep
<1>2. CASE \/ Agent!LoadCorrections(v) \/ Agent!NextType(v) \/ Agent!Finish(v)
           \/ Agent!Unreadable(v) \/ Agent!CallFails(v)
  BY <1>2, TypeStepsUnseen, UnseenStep
<1>3. CASE Agent!Reply(v)
  BY <1>3, ReplyUnseen, UnseenStep
<1>4. CASE Agent!UnknownType(v)
  BY <1>4, ListStepsUnseen, UnseenStep
     DEF Agent!UnknownType, Agent!At, Agent!Item, Agent!tables, Quiet
<1>5. CASE Agent!Elsewhere(v)
  <2>1. /\ a.at = "list" /\ a.at \in Listing /\ a.doc # Subject /\ Quiet
        /\ Agent!PassOver(v) \/ Agent!AfterInsert(v)
    BY <1>5 DEF Agent!Elsewhere, Agent!At, Agent!OnSubject, Agent!tables, Quiet,
                Listing
  <2>2. CASE Agent!PassOver(v)
    BY <2>1, <2>2, ListStepsUnseen, UnseenStep
  <2>3. CASE Agent!AfterInsert(v)
    <3>1. View(a) = NoReview
      BY <2>1 DEF View
    <3>2. Unseen(v)
      BY <2>1, <2>3, <3>1, AfterInsertGoes DEF Unseen
    <3> QED
      BY <3>2, UnseenStep
  <2> QED
    BY <2>1, <2>2, <2>3
<1>6. CASE Agent!Stops(v)
  <2>1. Agent!Ends(v, "stopped")
    BY <1>6 DEF Agent!Stops
  <2>2. CASE View(a) = NoReview
    BY <2>1, <2>2, EndsUnseen, UnseenStep
  <2>3. CASE View(a) # NoReview
    <3> DEFINE s == Agent!Fresh("stopped")
    <3>1. StreamOK(s) /\ View(s) = NoReview
      <4>1. "stopped" \notin Listing
        BY DEF Listing
      <4> QED
        BY <4>1, FreshOK
    <3>2. Goes(v, s) /\ Quiet
      BY <2>1 DEF Goes, Quiet, Agent!Ends, Agent!tables
    <3>3. Dealt(s) = {}
      BY DEF Dealt, Agent!Fresh
    <3>4. /\ Agent!Review[v].at # "idle"
          /\ Agent!Review' = [Agent!Review EXCEPT ![v] = NoReview]
      <4>1. Agent!Review[v] = View(a) /\ View(a).at # "idle"
        BY <2>3, ViewOfStreams DEF View
      <4> QED
        BY <3>1, <3>2, <4>1, ViewOfStreams
    <3>5. Agent!Insights!ReviewStops(v)
      BY <3>2, <3>4
         DEF Agent!Insights!ReviewStops, Agent!Insights!Reviewing, Quiet,
             Agent!Insights!stores, NoReview, Nothing, Agent!Insights!NoReview,
             Agent!Insights!Nothing
    <3>6. Agent!Insights!Review(v)
      BY <3>5, Zenon DEF Agent!Insights!Review
    <3>7. UNCHANGED <<status, proposed, regulatory_db, few_shot, blacklist, officer>>
      BY <3>2 DEF Quiet
    <3> HIDE DEF s
    <3> QED
      BY <3>1, <3>2, <3>3, <3>6, <3>7 DEF StreamStep
  <2> QED
    BY <2>2, <2>3
<1>7. status \in [Recs -> Statuses] /\ proposed \in [Recs -> Proposals \cup {Nothing}]
  BY DEF TablesOK
<1> QED
  BY <1>1, <1>2, <1>3, <1>4, <1>5, <1>6, <1>7, IsBlacklistedStep, HasPendingStep,
     CreateRecommendationStep DEF Agent!Proceed

LEMMA MadeStays ==
  ASSUME \A r \in Recs : status[r] # "absent" =>
            status'[r] # "absent" /\ proposed'[r] = proposed[r]
  PROVE  Made \subseteq Made'
<1> SUFFICES ASSUME NEW r \in Recs, status[r] # "absent"
             PROVE  proposed[r] \in Made'
  BY DEF Made
<1>1. status'[r] # "absent" /\ proposed'[r] = proposed[r]
  OBVIOUS
<1> QED
  BY <1>1 DEF Made

LEMMA StreamStepTables ==
  ASSUME TablesOK, NEW v \in Reviews, StreamStep(v)
  PROVE  TablesOK' /\ Made \subseteq Made'
<1>1. UNCHANGED <<blacklist, officer>>
  BY DEF StreamStep, Quiet
<1>2. CASE UNCHANGED <<status, proposed>>
  BY <1>1, <1>2 DEF TablesOK, Made, Busy
<1>3. CASE \E r \in Recs, p \in Proposals :
              Agent!Insights!CreateRecommendation(r, p)
  <2>1. PICK r \in Recs, p \in Proposals :
           /\ status[r] = "absent"
           /\ status' = [status EXCEPT ![r] = "pending"]
           /\ proposed' = [proposed EXCEPT ![r] = p]
    BY <1>3 DEF Agent!Insights!CreateRecommendation
  <2>2. \A q \in Recs : status[q] # "absent" =>
           status'[q] # "absent" /\ proposed'[q] = proposed[q]
    BY <2>1 DEF TablesOK
  <2>3. Made \subseteq Made'
    BY <2>2, MadeStays
  <2>4. /\ status' \in [Recs -> Statuses]
        /\ proposed' \in [Recs -> Proposals \cup {Nothing}]
    BY <2>1 DEF TablesOK, Statuses
  <2>5. \A o \in Officers : Busy(o) => officer[o].rec \in Recs
    BY DEF TablesOK, Busy, OfficerStates, NoRequest
  <2> QED
    BY <1>1, <2>2, <2>3, <2>4, <2>5 DEF TablesOK, Busy
<1> QED
  BY <1>2, <1>3 DEF StreamStep, Quiet

LEMMA RequestTables ==
  ASSUME TablesOK, NEW o \in Officers, Agent!Insights!Request(o)
  PROVE  TablesOK' /\ Made \subseteq Made'
<1>1. officer \in [Officers -> OfficerStates \cup {NoRequest}]
  BY DEF TablesOK
<1>2. ASSUME Busy(o)
      PROVE  /\ officer[o].rec \in Recs /\ status[officer[o].rec] # "absent"
             /\ proposed[officer[o].rec] \in Made
  <2>1. officer[o].rec \in Recs
    BY <1>1, <1>2 DEF Busy, OfficerStates, NoRequest
  <2>2. status[officer[o].rec] # "absent"
    BY <1>2 DEF TablesOK
  <2> QED
    BY <2>1, <2>2 DEF Made
<1>3. /\ proposed' = proposed
      /\ \/ status' = status
         \/ /\ Busy(o)
            /\ \E new \in {"approved", "undone", "rejected", "pending"} :
                  status' = [status EXCEPT ![officer[o].rec] = new]
  BY DEF Agent!Insights!Request, Agent!Insights!ReadRecommendation,
     Agent!Insights!ApplyRecommendation, Agent!Insights!WithdrawRecommendation,
     Agent!Insights!FinishPatch, Agent!Insights!MarkFirst,
     Agent!Insights!UpdateBlacklist, Agent!Insights!RequestFails,
     Agent!Insights!stores, Agent!Insights!SetStatus, Agent!Insights!At, Busy
<1>4. \/ blacklist' \subseteq blacklist
      \/ Busy(o) /\ blacklist' = blacklist \cup {proposed[officer[o].rec]}
  BY DEF Agent!Insights!Request, Agent!Insights!ReadRecommendation,
     Agent!Insights!ApplyRecommendation, Agent!Insights!WithdrawRecommendation,
     Agent!Insights!FinishPatch, Agent!Insights!MarkFirst,
     Agent!Insights!UpdateBlacklist, Agent!Insights!RequestFails,
     Agent!Insights!stores, Agent!Insights!AddToBlacklist,
     Agent!Insights!RemoveFromBlacklist, Agent!Insights!At, Busy
<1>5. \/ \E request \in Requests, r \in Recs :
            /\ status[r] = ActsOn[request] /\ status' = status
            /\ officer' = [officer EXCEPT ![o] =
                              [at |-> "read", request |-> request, rec |-> r]]
      \/ officer' = [officer EXCEPT ![o] = NoRequest]
      \/ /\ Busy(o)
         /\ \E at \in {"patched", "marked"} : officer' = [officer EXCEPT ![o].at = at]
  <2>1. CASE \E request \in Agent!Insights!Requests, r \in Recs :
                Agent!Insights!ReadRecommendation(o, request, r)
    BY <2>1 DEF Agent!Insights!ReadRecommendation, Agent!Insights!stores,
       Agent!Insights!Requests, Requests, ActsOn, Agent!Insights!ActsOn
  <2>2. CASE \/ Agent!Insights!ApplyRecommendation(o)
             \/ Agent!Insights!WithdrawRecommendation(o)
             \/ Agent!Insights!MarkFirst(o)
    BY <2>2 DEF Agent!Insights!ApplyRecommendation,
       Agent!Insights!WithdrawRecommendation, Agent!Insights!MarkFirst,
       Agent!Insights!Done, Agent!Insights!To, Agent!Insights!At, Busy,
       Agent!Insights!NoRequest, NoRequest, Agent!Insights!Nothing, Nothing
  <2>3. CASE \/ Agent!Insights!FinishPatch(o) \/ Agent!Insights!UpdateBlacklist(o)
             \/ Agent!Insights!RequestFails(o)
    BY <2>3 DEF Agent!Insights!FinishPatch, Agent!Insights!UpdateBlacklist,
       Agent!Insights!RequestFails, Agent!Insights!Done,
       Agent!Insights!NoRequest, NoRequest, Agent!Insights!Nothing, Nothing
  <2> QED
    BY <2>1, <2>2, <2>3, Zenon DEF Agent!Insights!Request
<1>6. /\ status' \in [Recs -> Statuses]
      /\ \A r \in Recs : status[r] # "absent" => status'[r] # "absent"
  BY <1>2, <1>3 DEF TablesOK, Statuses
<1>7. Made \subseteq Made'
  BY <1>3, <1>6, MadeStays
<1>8. blacklist' \subseteq Made'
  BY <1>2, <1>4, <1>7 DEF TablesOK
<1>9. /\ officer' \in [Officers -> OfficerStates \cup {NoRequest}]
      /\ \A q \in Officers : Busy(q)' => status'[officer'[q].rec] # "absent"
  <2>1. ASSUME NEW q \in Officers, officer'[q] = officer[q], Busy(q)
        PROVE  status'[officer'[q].rec] # "absent"
    <3>1. officer[q].rec \in Recs /\ status[officer[q].rec] # "absent"
      BY <1>1, <2>1 DEF TablesOK, Busy, OfficerStates, NoRequest
    <3> QED
      BY <1>6, <2>1, <3>1
  <2>2. CASE \E request \in Requests, r \in Recs :
            /\ status[r] = ActsOn[request] /\ status' = status
            /\ officer' = [officer EXCEPT ![o] =
                              [at |-> "read", request |-> request, rec |-> r]]
    <3>1. PICK request \in Requests, r \in Recs :
            /\ status[r] = ActsOn[request] /\ status' = status
            /\ officer' = [officer EXCEPT ![o] =
                              [at |-> "read", request |-> request, rec |-> r]]
      BY <2>2
    <3>2. [at |-> "read", request |-> request, rec |-> r] \in OfficerStates
      BY DEF OfficerStates
    <3>3. status'[r] # "absent"
      BY <3>1 DEF Requests, ActsOn
    <3>4. \A q \in Officers : officer'[q] = IF q = o
                THEN [at |-> "read", request |-> request, rec |-> r] ELSE officer[q]
      BY <1>1, <3>1
    <3> QED
      BY <1>1, <2>1, <3>1, <3>2, <3>3, <3>4 DEF Busy
  <2>3. CASE officer' = [officer EXCEPT ![o] = NoRequest]
    <3>1. \A q \in Officers : officer'[q] = IF q = o THEN NoRequest ELSE officer[q]
      BY <1>1, <2>3
    <3>2. NoRequest.at = "idle"
      BY DEF NoRequest
    <3> QED
      BY <1>1, <2>1, <2>3, <3>1, <3>2 DEF Busy
  <2>4. CASE /\ Busy(o)
             /\ \E at \in {"patched", "marked"} :
                   officer' = [officer EXCEPT ![o].at = at]
    <3>1. PICK at \in {"patched", "marked"} :
             officer' = [officer EXCEPT ![o].at = at]
      BY <2>4
    <3>2. officer[o] \in OfficerStates
      BY <1>1, <2>4 DEF Busy, NoRequest
    <3>3. /\ [officer[o] EXCEPT !.at = at] \in OfficerStates
          /\ [officer[o] EXCEPT !.at = at].rec = officer[o].rec
      BY <3>2 DEF OfficerStates
    <3>4. \A q \in Officers : officer'[q] = IF q = o
                THEN [officer[o] EXCEPT !.at = at] ELSE officer[q]
      BY <1>1, <3>1
    <3>5. officer' \in [Officers -> OfficerStates \cup {NoRequest}]
      BY <1>1, <3>1, <3>3
    <3>6. status'[officer'[o].rec] # "absent"
      BY <1>2, <1>6, <2>4, <3>3, <3>4
    <3> QED
      BY <2>1, <3>4, <3>5, <3>6 DEF Busy
  <2> QED
    BY <1>5, <2>2, <2>3, <2>4
<1>10. proposed' \in [Recs -> Proposals \cup {Nothing}]
  BY <1>3 DEF TablesOK
<1> QED
  BY <1>6, <1>7, <1>8, <1>9, <1>10, Zenon DEF TablesOK

AgentInv ==
    /\ StreamsOK
    /\ TablesOK
    /\ \A v \in Reviews : Dealt(agent[v]) \subseteq Made

LEMMA AgentInit ==
  ASSUME Agent!Init
  PROVE  AgentInv
<1>1. /\ agent = [v \in Reviews |-> Agent!Fresh("idle")]
      /\ status = [r \in Recs |-> "absent"]
      /\ proposed = [r \in Recs |-> Nothing]
      /\ blacklist = {}
      /\ officer = [o \in Officers |-> NoRequest]
  BY DEF Agent!Init, Agent!Insights!Init, Agent!Insights!Nothing, Nothing,
         Agent!Insights!NoRequest, NoRequest
<1>2. StreamOK(Agent!Fresh("idle"))
  <2>1. "idle" \notin Listing
    BY DEF Listing
  <2> QED
    BY <2>1, FreshOK
<1>3. Dealt(Agent!Fresh("idle")) = {}
  BY DEF Dealt, Agent!Fresh
<1>4. TablesOK
  BY <1>1 DEF TablesOK, Busy, NoRequest, Statuses
<1>5. agent = [v \in Reviews |-> agent[v]] /\ \A v \in Reviews : agent[v] = Agent!Fresh("idle")
  BY <1>1, Zenon
<1> QED
  BY <1>2, <1>3, <1>4, <1>5, Zenon DEF AgentInv, StreamsOK

LEMMA AgentCrash ==
  ASSUME AgentInv, Agent!Crash
  PROVE  AgentInv' /\ [Agent!Insights!Next]_Agent!Insights!vars
<1>1. /\ agent' = [v \in Reviews |-> agent'[v]]
      /\ \A v \in Reviews : \/ agent'[v] = Agent!Fresh("stopped")
                            \/ /\ agent'[v] = agent[v]
                               /\ agent[v].at \in {"idle", "done", "broken", "stopped"}
  <2> DEFINE Then(v) == IF Agent!At(v, "idle") THEN agent[v] ELSE
                        IF agent[v].at \in Agent!Ended THEN agent[v]
                                                       ELSE Agent!Fresh("stopped")
  <2>1. agent' = [v \in Reviews |-> Then(v)]
    BY Zenon DEF Agent!Crash
  <2>2. \A v \in Reviews : \/ Then(v) = Agent!Fresh("stopped")
                           \/ /\ Then(v) = agent[v]
                              /\ agent[v].at \in {"idle", "done", "broken", "stopped"}
    BY DEF Agent!At, Agent!Ended
  <2> HIDE DEF Then
  <2> QED
    BY <2>1, <2>2
<1>2. /\ StreamOK(Agent!Fresh("stopped"))
      /\ View(Agent!Fresh("stopped")) = NoReview
      /\ Dealt(Agent!Fresh("stopped")) = {}
  <2>1. "stopped" \notin Listing
    BY DEF Listing
  <2>2. Dealt(Agent!Fresh("stopped")) = {}
    BY DEF Dealt, Agent!Fresh
  <2> QED
    BY <2>1, <2>2, FreshOK
<1>3. UNCHANGED <<status, proposed, regulatory_db, few_shot, blacklist>>
  BY DEF Agent!Crash, Agent!Insights!Crash, Agent!Insights!stores, Agent!tables
<1>4. Made' = Made
  BY <1>3 DEF Made
<1>5. ASSUME NEW v \in Reviews
      PROVE  /\ StreamOK(agent'[v]) /\ Dealt(agent'[v]) \subseteq Made
             /\ View(agent'[v]) = NoReview
  <2>1. View(agent[v]) = NoReview \/ agent'[v] # agent[v]
        \/ agent'[v] = Agent!Fresh("stopped")
    BY <1>1 DEF View
  <2>2. StreamOK(agent[v]) /\ Dealt(agent[v]) \subseteq Made
    BY DEF AgentInv, StreamsOK
  <2> QED
    BY <1>1, <1>2, <2>1, <2>2
<1>6. StreamsOK'
  BY <1>1, <1>5, Zenon DEF StreamsOK, StreamOK
<1>7. officer' = [o \in Officers |-> NoRequest] \/ officer' = officer
  BY DEF Agent!Crash, Agent!Insights!Crash, Agent!Insights!NoRequest, NoRequest,
         Agent!Insights!Nothing, Nothing
<1>8. TablesOK'
  <2>1. officer' \in [Officers -> OfficerStates \cup {NoRequest}]
    BY <1>7 DEF AgentInv, TablesOK
  <2>2. \A o \in Officers : Busy(o)' => status'[officer'[o].rec] # "absent"
    BY <1>3, <1>7 DEF AgentInv, TablesOK, Busy, NoRequest
  <2> QED
    BY <1>3, <1>4, <2>1, <2>2 DEF AgentInv, TablesOK
<1>9. AgentInv'
  <2>1. \A v \in Reviews : Dealt(agent'[v]) \subseteq Made'
    BY <1>4, <1>5
  <2> QED
    BY <1>6, <1>8, <2>1 DEF AgentInv, Dealt, Due
<1>10. Agent!Review' = [v \in Reviews |-> NoReview]
  <2>1. Agent!Review' = [v \in Reviews |-> View(agent'[v])]
    BY Zenon DEF Agent!Review, View, Agent!OnSubject, Agent!At, Agent!Item, NoReview,
                 Nothing
  <2> QED
    BY <1>5, <2>1, Zenon
<1>11. [Agent!Insights!Next]_Agent!Insights!vars
  <2>1. CASE Agent!Insights!Crash
    BY <2>1, Zenon DEF Agent!Insights!Next
  <2>2. CASE /\ \A v \in Reviews : ~ Agent!Insights!Reviewing(v)
             /\ UNCHANGED <<Agent!tables, officer, disturbed>>
    <3>1. Agent!Review = [v \in Reviews |-> View(agent[v])]
      BY ViewOfStreams DEF AgentInv
    <3>2. ASSUME NEW v \in Reviews PROVE View(agent[v]) = NoReview
      <4>1. Agent!Review[v].at = "idle"
        BY <2>2 DEF Agent!Insights!Reviewing
      <4> QED
        BY <3>1, <4>1 DEF View, NoReview
    <3>3. Agent!Review' = Agent!Review
      BY <1>10, <3>1, <3>2, Zenon
    <3> QED
      BY <2>2, <3>3 DEF Agent!Insights!vars, Agent!tables
  <2> QED
    BY <2>1, <2>2 DEF Agent!Crash
<1> QED
  BY <1>9, <1>11

LEMMA AgentStream ==
  ASSUME AgentInv, NEW v \in Reviews, StreamStep(v)
  PROVE  AgentInv' /\ [Agent!Insights!Next]_Agent!Insights!vars
<1>1. PICK s : /\ Goes(v, s) /\ StreamOK(s)
               /\ Dealt(s) \subseteq Dealt(agent[v]) \cup blacklist \cup Made'
               /\ \/ Quiet /\ View(s) = View(agent[v])
                  \/ Agent!Insights!Review(v)
  BY Zenon DEF StreamStep
<1>2. TablesOK' /\ Made \subseteq Made' /\ blacklist \subseteq Made
  BY StreamStepTables DEF AgentInv, TablesOK
<1>3. StreamsOK'
  BY <1>1, StreamGoes DEF AgentInv
<1>4. \A w \in Reviews : agent'[w] = IF w = v THEN s ELSE agent[w]
  BY <1>1 DEF AgentInv, StreamsOK, Goes
<1>5. ASSUME NEW w \in Reviews PROVE Dealt(agent'[w]) \subseteq Made'
  <2>1. Dealt(agent[w]) \subseteq Made /\ Dealt(agent[v]) \subseteq Made
    BY DEF AgentInv
  <2>2. Dealt(s) \subseteq Made'
    BY <1>1, <1>2, <2>1, Zenon
  <2> QED
    BY <1>2, <1>4, <2>1, <2>2, Zenon
<1>6. AgentInv'
  BY <1>2, <1>3, <1>5 DEF AgentInv, Dealt, Due
<1>7. CASE Agent!Insights!Review(v)
  <2>1. Agent!Insights!Next
    BY <1>7, Zenon DEF Agent!Insights!Next
  <2> QED
    BY <1>6, <2>1
<1>8. CASE Quiet /\ View(s) = View(agent[v])
  <2>1. Agent!Review' = Agent!Review
    <3>1. /\ Agent!Review = [w \in Reviews |-> View(agent[w])]
          /\ Agent!Review' = [Agent!Review EXCEPT ![v] = View(s)]
      BY <1>1, ViewOfStreams DEF AgentInv
    <3> HIDE DEF View
    <3> QED
      BY <1>8, <3>1
  <2>2. UNCHANGED Agent!Insights!vars
    BY <1>8, <2>1 DEF Quiet, Agent!Insights!vars
  <2> QED
    BY <1>6, <2>2
<1> QED
  BY <1>1, <1>7, <1>8

LEMMA AgentNext ==
  ASSUME AgentInv, [Agent!Next]_Agent!vars,
         Replies \subseteq Seq(Agent!Items) \ {<<>>}
  PROVE  AgentInv' /\ [Agent!Insights!Next]_Agent!Insights!vars
<1>1. CASE \E v \in Reviews :
              Agent!LoadCorrections(v) \/ Agent!Proceed(v) \/ Agent!Stops(v)
  <2>1. PICK v \in Reviews :
              Agent!LoadCorrections(v) \/ Agent!Proceed(v) \/ Agent!Stops(v)
    BY <1>1
  <2>2. StreamsOK /\ TablesOK
    BY DEF AgentInv
  <2>3. StreamStep(v)
    BY <2>1, <2>2, StreamSteps
  <2> QED
    BY <2>3, AgentStream
<1>2. CASE Agent!Officer
  <2>1. PICK o \in Officers : Agent!Insights!Request(o)
    BY <1>2 DEF Agent!Officer
  <2>2. TablesOK' /\ Made \subseteq Made'
    BY <2>1, RequestTables DEF AgentInv
  <2>3. agent' = agent
    BY <1>2 DEF Agent!Officer
  <2>4. AgentInv'
    BY <2>2, <2>3 DEF AgentInv, StreamsOK, StreamOK, Dealt, Due
  <2> QED
    BY <2>1, <2>4, Zenon DEF Agent!Insights!Next
<1>3. CASE Agent!Crash
  BY <1>3, AgentCrash
<1>4. CASE UNCHANGED Agent!vars
  <2>1. UNCHANGED <<status, proposed, regulatory_db, few_shot, blacklist, officer,
                    swept, disturbed, agent>>
    BY <1>4 DEF Agent!vars, Agent!tables
  <2>2. AgentInv'
    BY <2>1 DEF AgentInv, StreamsOK, StreamOK, Dealt, Due, TablesOK, Made, Busy
  <2>3. Agent!Review' = Agent!Review
    BY <2>1 DEF Agent!Review, Agent!OnSubject, Agent!At, Agent!Item
  <2> QED
    BY <2>1, <2>2, <2>3 DEF Agent!Insights!vars
<1> QED
  BY <1>1, <1>2, <1>3, <1>4 DEF Agent!Next

\* run_review does to the stores what Insights says, whatever the LLM answers,
\* for any number of reviews, document types and lists: retries, answers that
\* are no JSON, malformed items, early ends and crashes add nothing to it.
THEOREM AgentImplementsInsights ==
  ASSUME Replies \subseteq Seq(Agent!Items) \ {<<>>}
  PROVE  Agent!Spec => Agent!InsightsSpec
<1>1. Agent!Init => AgentInv /\ Agent!Insights!Init
  BY AgentInit DEF Agent!Init
<1>2. AgentInv /\ [Agent!Next]_Agent!vars
        => AgentInv' /\ [Agent!Insights!Next]_Agent!Insights!vars
  BY AgentNext
<1> QED
  BY <1>1, <1>2, PTL DEF Agent!Spec, Agent!InsightsSpec, Agent!Insights!Spec

\* A stream that ends with its "done" event has lost nothing: every proposal
\* of a well-formed item the LLM made for the Subject is a recommendation.
DoneIsComplete ==
    \A v \in Reviews : agent[v].at = "done" =>
        \A p \in agent[v].given : \E r \in Recs : proposed[r] = p

\* Safety's half of ReviewsFinish: neither a blacklisted, a pending nor a
\* malformed neighbour takes a proposal with it, and the blacklist holds
\* nothing that no officer has seen.
THEOREM NothingIsLost ==
  ASSUME Replies \subseteq Seq(Agent!Items) \ {<<>>}
  PROVE  Agent!Spec => []DoneIsComplete
<1>1. Agent!Init => AgentInv
  BY AgentInit
<1>2. AgentInv /\ [Agent!Next]_Agent!vars => AgentInv'
  BY AgentNext
<1>3. AgentInv => DoneIsComplete
  BY DEF AgentInv, DoneIsComplete, Dealt, Due, Listing, Made
<1> QED
  BY <1>1, <1>2, <1>3, PTL DEF Agent!Spec

-----------------------------------------------------------------------------
(* What ReviewsFinish needs of the steps.                                   *)

Stages == {"idle", "loaded", "asking", "next"} \cup Listing \cup Agent!Ended

\* How far a stream is, in what is left of it: of the stream, of a document
\* type, and of an item.
Era(s) ==
    IF s.at \in Agent!Ended THEN 0 ELSE
    IF s.at = "idle"        THEN 3 ELSE
    IF s.at = "loaded"      THEN 2 ELSE 1
Phase(s) ==
    IF s.at \in Listing  THEN 1 ELSE
    IF s.at # "asking"   THEN 0 ELSE
    IF s.answers = 0     THEN 3 ELSE 2
Queries(s) ==
    IF s.at = "list"    THEN 2 ELSE
    IF s.at = "checked" THEN 1 ELSE 0

OneFewer(few, many) == many # <<>> /\ few = Tail(many)

\* The stream comes from s to t, which is closer to its end: it has one
\* document type fewer to do, or it is further with the one it is at, or has
\* one item fewer of its list, or is further with an item.
GoesOn(s, t) ==
    /\ t.at \in Stages
    /\ s.at \notin Agent!Ended
    /\ \/ Era(t) < Era(s)
       \/ /\ Era(t) = Era(s)
          /\ \/ OneFewer(t.todo, s.todo)
             \/ /\ t.todo = s.todo
                /\ \/ Phase(t) < Phase(s)
                   \/ /\ Phase(t) = Phase(s)
                      /\ \/ OneFewer(t.items, s.items)
                         \/ t.items = s.items /\ Queries(t) < Queries(s)

\* No step takes a review back, whoever takes it, and each step of its own
\* takes it on.
ReviewsGoOn ==
    \A v \in Reviews :
        /\ agent'[v] = agent[v] \/ GoesOn(agent[v], agent'[v])
        /\ Agent!Proceed(v) => GoesOn(agent[v], agent'[v])

\* What a review that has begun waits for: nothing of its own making.  In a
\* list it has an item, which is of a kind the code has a case for.
ReviewsReady ==
    \A v \in Reviews :
        \/ agent[v].at \in {"idle", "loaded", "asking", "next"} \cup Agent!Ended
        \/ /\ agent[v].at \in Listing
           /\ agent[v].items # <<>>
           /\ Head(agent[v].items) \in Agent!Items
           /\ agent[v].at # "list" => Head(agent[v].items).kind \in {"sound", "odd"}

LEMMA EndsGoesOn ==
  ASSUME NEW v \in Reviews, StreamsOK, NEW how \in {"broken", "stopped"},
         agent[v].at \in Stages \ Agent!Ended, Agent!Ends(v, how)
  PROVE  GoesOn(agent[v], agent'[v])
<1>1. agent'[v] = Agent!Fresh(how)
  BY DEF StreamsOK, Agent!Ends
<1>2. agent'[v].at = how
  BY <1>1 DEF Agent!Fresh
<1> QED
  BY <1>2 DEF GoesOn, Era, Stages, Agent!Ended

\* The rest of a list, or the next document type.
LEMMA PassOverGoesOn ==
  ASSUME NEW v \in Reviews, StreamsOK, agent[v].at \in Listing, Agent!PassOver(v)
  PROVE  GoesOn(agent[v], agent'[v])
<1> DEFINE a == agent[v]
<1>1. StreamOK(a) /\ a.items # <<>> /\ agent'[v] = Passed(a)
  BY DEF StreamsOK, StreamOK, Agent!PassOver, Agent!AfterItem, Passed
<1>2. /\ Passed(a).items = Tail(a.items) /\ Passed(a).todo = a.todo
      /\ Passed(a).at \in {"next", "list"}
  BY <1>1 DEF Passed, StreamOK
<1>3. OneFewer(Passed(a).items, a.items)
  BY <1>1, <1>2 DEF OneFewer
<1> HIDE DEF a
<1>4. Era(Passed(a)) = 1 /\ Era(a) = 1 /\ Phase(a) = 1
  BY <1>2 DEF Era, Phase, Listing, Agent!Ended, a
<1>5. Phase(Passed(a)) = IF Passed(a).at = "list" THEN 1 ELSE 0
  BY <1>2 DEF Phase, Listing
<1>6. Passed(a).at \in Stages /\ a.at \notin Agent!Ended
  BY <1>2 DEF Stages, Listing, Agent!Ended, a
<1>7. GoesOn(a, Passed(a))
  BY <1>2, <1>3, <1>4, <1>5, <1>6 DEF GoesOn
<1> QED
  BY <1>1, <1>7 DEF a

LEMMA AfterInsertGoesOn ==
  ASSUME NEW v \in Reviews, StreamsOK, agent[v].at \in Listing, Agent!AfterInsert(v)
  PROVE  GoesOn(agent[v], agent'[v])
<1>1. CASE Agent!Item(v).kind = "odd"
  <2>1. agent'[v] = Agent!Fresh("broken")
    BY <1>1 DEF Agent!AfterInsert, StreamsOK
  <2>2. agent'[v].at = "broken"
    BY <2>1 DEF Agent!Fresh
  <2> QED
    BY <2>2 DEF GoesOn, Era, Stages, Listing, Agent!Ended
<1>2. CASE Agent!Item(v).kind # "odd"
  <2>1. Agent!PassOver(v)
    BY <1>2 DEF Agent!AfterInsert, Agent!PassOver
  <2> QED
    BY <2>1, PassOverGoesOn
<1> QED
  BY <1>1, <1>2

\* A query answers, and the item is still there.
LEMMA QueryGoesOn ==
  ASSUME NEW v \in Reviews, StreamsOK, NEW at,
         \/ agent[v].at = "list" /\ at = "checked"
         \/ agent[v].at = "checked" /\ at = "clear",
         agent' = [agent EXCEPT ![v].at = at]
  PROVE  GoesOn(agent[v], agent'[v])
<1>1. /\ agent'[v].at = at /\ agent'[v].todo = agent[v].todo
      /\ agent'[v].items = agent[v].items
  BY DEF StreamsOK, StreamOK
<1> QED
  BY <1>1 DEF GoesOn, Era, Phase, Queries, Stages, Listing, Agent!Ended

\* Between the lists: the log is read, and the LLM asked about the types.
LEMMA TypeGoesOn ==
  ASSUME NEW v \in Reviews, StreamsOK,
         \/ Agent!LoadCorrections(v) \/ Agent!NextType(v) \/ Agent!Finish(v)
         \/ Agent!Unreadable(v) \/ Agent!CallFails(v) \/ Agent!Reply(v)
  PROVE  GoesOn(agent[v], agent'[v])
<1> DEFINE a == agent[v]
<1>1. /\ DOMAIN a = {"at", "todo", "doc", "answers", "items", "given"}
      /\ agent = [w \in Reviews |-> agent[w]]
  BY DEF StreamsOK, StreamOK
<1>2. ASSUME NEW s, Goes(v, s), GoesOn(a, s) PROVE GoesOn(agent[v], agent'[v])
  <2>1. agent'[v] = s
    BY <1>1, <1>2 DEF Goes
  <2> QED
    BY <1>2, <2>1
<1>3. CASE Agent!LoadCorrections(v)
  <2>1. a.at = "idle"
    BY <1>3 DEF Agent!LoadCorrections, Agent!At
  <2>2. PICK todo :
           agent' = [agent EXCEPT ![v].at = "loaded", ![v].todo = todo]
    BY <1>3, Zenon DEF Agent!LoadCorrections
  <2> DEFINE s == [a EXCEPT !.at = "loaded", !.todo = todo]
  <2>3. Goes(v, s) /\ s.at = "loaded"
    BY <1>1, <2>2 DEF Goes
  <2> HIDE DEF s
  <2>4. GoesOn(a, s)
    BY <2>1, <2>3 DEF GoesOn, Era, Stages, Agent!Ended
  <2> QED
    BY <1>2, <2>3, <2>4
<1>4. CASE Agent!NextType(v)
  <2>1. a.at \in {"loaded", "next"} /\ a.todo # <<>>
    BY <1>4 DEF Agent!NextType
  <2> DEFINE s == [a EXCEPT !.at = "asking", !.todo = Tail(@), !.doc = Head(a.todo)]
  <2>2. Goes(v, s) /\ s.at = "asking" /\ s.todo = Tail(a.todo)
    BY <1>1, <1>4 DEF Goes, Agent!NextType
  <2> HIDE DEF s
  <2>3. GoesOn(a, s)
    BY <2>1, <2>2 DEF GoesOn, OneFewer, Era, Stages, Agent!Ended
  <2> QED
    BY <1>2, <2>2, <2>3
<1>5. CASE Agent!Finish(v)
  <2>1. a.at \in {"loaded", "next"}
    BY <1>5 DEF Agent!Finish
  <2> DEFINE s == [Agent!Fresh("done") EXCEPT !.given = a.given]
  <2>2. Goes(v, s) /\ s.at = "done"
    BY <1>5 DEF Goes, Agent!Finish, Agent!Fresh
  <2> HIDE DEF s
  <2>3. GoesOn(a, s)
    BY <2>1, <2>2 DEF GoesOn, Era, Stages, Agent!Ended
  <2> QED
    BY <1>2, <2>2, <2>3
<1>6. CASE Agent!Unreadable(v)
  <2> DEFINE at == IF a.answers = 0 THEN "asking" ELSE "next"
             answers == 1 - a.answers
             s == [a EXCEPT !.at = at, !.answers = answers]
  <2>1. a.at = "asking"
    BY <1>6 DEF Agent!Unreadable, Agent!At
  <2>2. Goes(v, s) /\ s.at = at /\ s.answers = answers /\ s.todo = a.todo
    BY <1>1, <1>6 DEF Goes, Agent!Unreadable
  <2> HIDE DEF s
  <2>3. Era(s) = Era(a) /\ s.at \in Stages /\ a.at \notin Agent!Ended
    BY <2>1, <2>2 DEF Era, Stages, Agent!Ended
  <2>4. Phase(s) < Phase(a)
    <3>1. CASE a.answers = 0
      <4>1. s.at = "asking" /\ s.answers = 1
        BY <2>2, <3>1
      <4> QED
        BY <2>1, <3>1, <4>1 DEF Phase, Listing
    <3>2. CASE a.answers # 0
      <4>1. s.at = "next"
        BY <2>2, <3>2
      <4> QED
        BY <2>1, <3>2, <4>1 DEF Phase, Listing
    <3> QED
      BY <3>1, <3>2
  <2>5. GoesOn(a, s)
    BY <2>2, <2>3, <2>4 DEF GoesOn
  <2> QED
    BY <1>2, <2>2, <2>5
<1>7. CASE Agent!CallFails(v)
  <2>1. a.at = "asking"
    BY <1>7 DEF Agent!CallFails, Agent!At
  <2> DEFINE s == [a EXCEPT !.at = "next", !.answers = 0]
  <2>2. Goes(v, s) /\ s.at = "next" /\ s.todo = a.todo
    BY <1>1, <1>7 DEF Goes, Agent!CallFails
  <2> HIDE DEF s
  <2>3. GoesOn(a, s)
    BY <2>1, <2>2 DEF GoesOn, Era, Phase, Stages, Listing, Agent!Ended
  <2> QED
    BY <1>2, <2>2, <2>3
<1>8. CASE Agent!Reply(v)
  <2>1. a.at = "asking"
    BY <1>8, Zenon DEF Agent!Reply, Agent!At
  <2> DEFINE Given(items) == a.given \cup
                IF a.doc = Subject THEN Agent!Proposed(items) ELSE {}
  <2>2. PICK items \in Replies :
           agent' = [agent EXCEPT ![v].at = "list", ![v].items = items,
                        ![v].answers = 0, ![v].given = Given(items)]
    BY <1>8, Zenon DEF Agent!Reply, Agent!OnSubject
  <2> DEFINE given == Given(items)
             s == [a EXCEPT !.at = "list", !.items = items, !.answers = 0,
                            !.given = given]
  <2>3. Goes(v, s)
    BY <1>1, <2>2 DEF Goes
  <2>4. s.at = "list" /\ s.todo = a.todo
    BY <1>1
  <2> HIDE DEF s
  <2>5. GoesOn(a, s)
    BY <2>1, <2>4 DEF GoesOn, Era, Phase, Stages, Listing, Agent!Ended
  <2> QED
    BY <1>2, <2>3, <2>5
<1> QED
  BY <1>3, <1>4, <1>5, <1>6, <1>7, <1>8

LEMMA ReviewGoesOn ==
  ASSUME NEW v \in Reviews, AgentInv, agent[v].at \in Stages,
         Replies \subseteq Seq(Agent!Items) \ {<<>>},
         Agent!LoadCorrections(v) \/ Agent!Proceed(v) \/ Agent!Stops(v)
  PROVE  /\ GoesOn(agent[v], agent'[v])
         /\ \A w \in Reviews : w # v => agent'[w] = agent[w]
<1>1. StreamsOK /\ TablesOK
  BY DEF AgentInv
<1>2. \A w \in Reviews : w # v => agent'[w] = agent[w]
  <2>1. PICK s : Goes(v, s)
    BY <1>1, StreamSteps DEF StreamStep
  <2> QED
    BY <1>1, <2>1 DEF Goes, StreamsOK
<1>3. CASE Agent!NoLlm(v) \/ Agent!Malformed(v) \/ Agent!Uncounted(v)
  <2>1. /\ agent[v].at \in {"loaded", "asking", "list"}
        /\ Agent!Ends(v, "broken")
    BY <1>3 DEF Agent!NoLlm, Agent!Malformed, Agent!Uncounted, Agent!At
  <2>2. agent[v].at \in Stages \ Agent!Ended
    BY <2>1 DEF Stages, Listing, Agent!Ended
  <2> QED
    BY <1>1, <1>2, <2>1, <2>2, EndsGoesOn
<1>4. CASE Agent!Stops(v)
  <2>1. agent[v].at \in Stages \ Agent!Ended /\ Agent!Ends(v, "stopped")
    BY <1>4 DEF Agent!Stops
  <2> QED
    BY <1>1, <1>2, <2>1, EndsGoesOn
<1>5. CASE \/ Agent!LoadCorrections(v) \/ Agent!NextType(v) \/ Agent!Finish(v)
           \/ Agent!Unreadable(v) \/ Agent!CallFails(v) \/ Agent!Reply(v)
  BY <1>1, <1>2, <1>5, TypeGoesOn
<1>6. CASE \/ Agent!UnknownType(v) \/ Agent!Elsewhere(v)
           \/ Agent!IsBlacklisted(v) \/ Agent!HasPending(v)
           \/ Agent!CreateRecommendation(v)
  <2>1. /\ agent[v].at \in Listing
        /\ \/ Agent!PassOver(v)
           \/ Agent!AfterInsert(v)
           \/ agent[v].at = "list" /\ agent' = [agent EXCEPT ![v].at = "checked"]
           \/ agent[v].at = "checked" /\ agent' = [agent EXCEPT ![v].at = "clear"]
    BY <1>6, Zenon DEF Agent!UnknownType, Agent!Elsewhere, Agent!IsBlacklisted,
       Agent!HasPending, Agent!CreateRecommendation, Agent!At, Listing
  <2>2. GoesOn(agent[v], agent'[v])
    BY <1>1, <2>1, PassOverGoesOn, AfterInsertGoesOn, QueryGoesOn
  <2> QED
    BY <1>2, <2>2
<1> QED
  BY <1>3, <1>4, <1>5, <1>6 DEF Agent!Proceed

StagesOK == \A v \in Reviews : agent[v].at \in Stages

LEMMA NextGoesOn ==
  ASSUME AgentInv, StagesOK, [Agent!Next]_Agent!vars,
         Replies \subseteq Seq(Agent!Items) \ {<<>>}
  PROVE  StagesOK' /\ [ReviewsGoOn]_Agent!vars
<1>1. ASSUME NEW v \in Reviews,
             Agent!LoadCorrections(v) \/ Agent!Proceed(v) \/ Agent!Stops(v)
      PROVE  StagesOK' /\ ReviewsGoOn
  <2>1. /\ GoesOn(agent[v], agent'[v])
        /\ \A w \in Reviews : w # v => agent'[w] = agent[w]
    BY <1>1, ReviewGoesOn DEF StagesOK
  <2>2. \A w \in Reviews : Agent!Proceed(w) => GoesOn(agent[w], agent'[w])
    BY ReviewGoesOn DEF StagesOK
  <2> QED
    BY <2>1, <2>2 DEF StagesOK, ReviewsGoOn, GoesOn
<1>2. ASSUME NEW v \in Reviews, Agent!Proceed(v)
      PROVE  GoesOn(agent[v], agent'[v])
  BY <1>2, ReviewGoesOn DEF StagesOK
<1>3. CASE Agent!Officer
  <2>1. agent' = agent
    BY <1>3 DEF Agent!Officer
  <2> QED
    BY <1>2, <2>1 DEF StagesOK, Stages, ReviewsGoOn
<1>4. CASE Agent!Crash
  <2>1. ASSUME NEW v \in Reviews
        PROVE  /\ agent'[v].at \in Stages
               /\ agent'[v] = agent[v] \/ GoesOn(agent[v], agent'[v])
    <3>1. \/ agent'[v] = agent[v]
          \/ agent'[v] = Agent!Fresh("stopped") /\ agent[v].at \notin Agent!Ended
      BY <1>4, Zenon DEF Agent!Crash
    <3>2. CASE agent'[v] = Agent!Fresh("stopped") /\ agent[v].at \notin Agent!Ended
      <4>1. agent'[v].at = "stopped"
        BY <3>2 DEF Agent!Fresh
      <4> QED
        BY <3>2, <4>1 DEF GoesOn, Era, Stages, Agent!Ended
    <3> QED
      BY <3>1, <3>2 DEF StagesOK
  <2> QED
    BY <1>2, <2>1 DEF StagesOK, Stages, ReviewsGoOn
<1>5. CASE UNCHANGED Agent!vars
  BY <1>5 DEF Agent!vars, StagesOK, Stages
<1> QED
  BY <1>1, <1>3, <1>4, <1>5 DEF Agent!Next

\* Safety's other half of ReviewsFinish: each step of a review takes it on,
\* along an order in which only finitely many can follow, and nobody takes it
\* back, neither the LLM by answering no JSON nor another review or an officer.
THEOREM ReviewsOnlyGoOn ==
  ASSUME Replies \subseteq Seq(Agent!Items) \ {<<>>}
  PROVE  Agent!Spec => [][ReviewsGoOn]_Agent!vars
<1>1. Agent!Init => AgentInv /\ StagesOK
  <2>1. Agent!Init => StagesOK
    BY DEF Agent!Init, Agent!Fresh, StagesOK, Stages
  <2> QED
    BY <2>1, AgentInit
<1>2. AgentInv /\ StagesOK /\ [Agent!Next]_Agent!vars
        => AgentInv' /\ StagesOK' /\ [ReviewsGoOn]_Agent!vars
  BY AgentNext, NextGoesOn
<1> QED
  BY <1>1, <1>2, PTL DEF Agent!Spec

\* And a review that has begun has a next step: in a list it has an item, of a
\* kind that run_review has a case for, and it awaits queries about sound ones
\* only.
THEOREM ReviewsAreReady ==
  ASSUME Replies \subseteq Seq(Agent!Items) \ {<<>>}
  PROVE  Agent!Spec => []ReviewsReady
<1>1. Agent!Init => AgentInv /\ StagesOK
  <2>1. Agent!Init => StagesOK
    BY DEF Agent!Init, Agent!Fresh, StagesOK, Stages
  <2> QED
    BY <2>1, AgentInit
<1>2. AgentInv /\ StagesOK /\ [Agent!Next]_Agent!vars => AgentInv' /\ StagesOK'
  BY AgentNext, NextGoesOn
<1>3. AgentInv /\ StagesOK => ReviewsReady
  <2> SUFFICES ASSUME AgentInv, StagesOK, NEW v \in Reviews, agent[v].at \in Listing
               PROVE  /\ agent[v].items # <<>>
                      /\ Head(agent[v].items) \in Agent!Items
                      /\ agent[v].at # "list" =>
                            Head(agent[v].items).kind \in {"sound", "odd"}
    BY DEF ReviewsReady, StagesOK, Stages
  <2>1. StreamOK(agent[v])
    BY DEF AgentInv, StreamsOK
  <2> QED
    BY <2>1 DEF StreamOK, Listing
<1> QED
  BY <1>1, <1>2, <1>3, PTL DEF Agent!Spec


=============================================================================
