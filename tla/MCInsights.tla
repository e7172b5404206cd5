----------------------------- MODULE MCInsights -----------------------------
(***************************************************************************)
(* A small instance of Insights: two spellings of a missing rule, a third  *)
(* one whose name has a blank at its end, and a comprehension failure.  As *)
(* in the shipped regulatory_db.json, the EU profile already asks for the  *)
(* clause and the default one does not.                                    *)
(***************************************************************************)
EXTENDS Insights, TLC

CONSTANTS gdpr, gdprBlank, law, plain, json, blank, phrase, phrasing, default, EU

MCProposals    == {plain, json, blank, phrase}
MCMissingRules == {plain, json, blank}
MCClauses      == {gdpr, gdprBlank, law}
MCStripped     == [c \in MCClauses |-> IF c = law THEN law ELSE gdpr]
MCTopic        == [p \in MCProposals |-> CASE p = phrase -> phrasing
                                           [] p = blank  -> gdprBlank
                                           [] OTHER      -> gdpr]
MCProfiles     == {default, EU}
MCShipped      == [t \in MCProfiles |-> IF t = EU THEN {gdpr, law} ELSE {law}]

\* plain and json name the same clause and are told apart by nothing else.
Symmetry == Permutations(Recs) \cup Permutations(Officers)
                \cup Permutations({plain, json})

=============================================================================
