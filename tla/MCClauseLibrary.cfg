SPECIFICATION Spec
CONSTANTS
    default = default
    bank = bank
    BANK = BANK
    other = other
    shipped = shipped
    proposed = proposed
    odd = odd
    r1 = r1
    r2 = r2
    d1 = d1
    d2 = d2
    Tenants <- MCTenants
    Default = default
    Upper <- MCUpper
    Clauses <- MCClauses
    Stripped <- MCStripped
    Valid = {shipped, proposed}
    Shipped <- MCShipped
    Payloads = {{proposed}}
    Runs <- MCRuns
    Docs <- MCDocs
    DocOf <- MCDocOf
    TenantOf <- MCTenantOf
    MaxChanges = 3
CHECK_DEADLOCK FALSE
INVARIANTS
    ShownIsUsed
    ApprovedIsApplied
PROPERTIES
    RefreshedIsCurrent
