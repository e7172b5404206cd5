SPECIFICATION Spec
CONSTANTS
    clean = clean
    tainted = tainted
    Files <- MCFiles
    Unclean <- MCUnclean
    Ambiguous <- MCAmbiguous
    Judged <- MCJudged
    Overrides <- MCOverrides
    Traces = {t1, t2, t3}
    Handlers = {h1, h2}
CHECK_DEADLOCK FALSE
SYMMETRY Symmetry
INVARIANTS
    TypeOK
    CacheHasTrail
    ShownIsRecorded
    FailureHasNoVerdict
    CacheKeepsBlocked
PROPERTY OverrideIsPermanent
