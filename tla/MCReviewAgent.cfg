SPECIFICATION Spec
CONSTANTS
    gdpr = gdpr
    plain = plain
    json = json
    default = default
    nda = nda
    msa = msa
    none = none
    NoType = none
    Recs = {r1, r2, r3, r4}
    Proposals <- MCProposals
    MissingRules <- MCProposals
    Clauses = {gdpr}
    Stripped <- MCStripped
    Topic <- MCTopic
    Profiles = {default}
    Default = default
    Shipped <- MCShipped
    Officers = {o1}
    Reviews = {v1, v2}
    QueriesMayFail = TRUE
    MaxLines = 1
    DocTypes <- MCDocTypes
    Subject = nda
    MinEvidence = 2
    Logs <- MCLogs
    Replies <- MCReplies
CHECK_DEADLOCK FALSE
PROPERTIES
    ReviewsFinish
    InsightsSpec
