----------------------------- MODULE MCPipeline -----------------------------
(***************************************************************************)
(* A small instance of Pipeline, shaped like the shipped regulatory_db:    *)
(* the default profile asks for clauses of both document types, one HIGH   *)
(* risk and one not, and the US profile lists nothing for employment       *)
(* contracts.  "us" and "nowhere" are tenants without a profile of their   *)
(* own; the first one finds the US profile by its upper case.              *)
(***************************************************************************)
EXTENDS Pipeline

CONSTANTS credit, employment, law, indemnity, default, US, us, nowhere

MCDocTypes == {credit, employment}
MCClauses  == {law, indemnity}
MCHighRisk == {indemnity}
MCProfiles == {default, US}
MCTenants  == {default, US, us, nowhere}
MCUpper    == [t \in MCTenants |-> IF t = us THEN US ELSE t]
MCShippedDb == [t \in MCProfiles |-> [type \in MCDocTypes |->
    IF t = US /\ type = employment THEN {} ELSE {law, indemnity}]]

=============================================================================
