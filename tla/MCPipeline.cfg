SPECIFICATION Spec
CONSTANTS
    credit = credit
    employment = employment
    law = law
    indemnity = indemnity
    default = default
    US = US
    us = us
    nowhere = nowhere
    DocTypes <- MCDocTypes
    Clauses <- MCClauses
    HighRisk <- MCHighRisk
    Tenants <- MCTenants
    Profiles <- MCProfiles
    Default <- default
    Upper <- MCUpper
    ShippedDb <- MCShippedDb
    MaxRetries = 2
INVARIANTS
    TypeOK
    ApprovedIsEarned
    RiskGoesToHuman
    OneClauseListPerReport
    UnfaithfulNeverDecides
PROPERTIES
    ContractSpec
    Terminates
