SPECIFICATION Spec
CONSTANTS
    gdpr = gdpr
    gdprBlank = gdprBlank
    law = law
    plain = plain
    json = json
    blank = blank
    phrase = phrase
    phrasing = phrasing
    default = default
    EU = EU
    Recs = {r1, r2}
    Proposals <- MCProposals
    MissingRules <- MCMissingRules
    Clauses <- MCClauses
    Stripped <- MCStripped
    Topic <- MCTopic
    Profiles <- MCProfiles
    Default <- default
    MaxLines = 2
    QueriesMayFail = TRUE
    Shipped <- MCShipped
    Officers = {o1, o2}
    Reviews = {v1}
CHECK_DEADLOCK FALSE
SYMMETRY Symmetry
INVARIANTS
    TypeOK
    NoDuplicateClause
    ApprovedInForce
    NothingElseInForce
    BlacklistMatchesRejections
PROPERTIES
    Lifecycle
