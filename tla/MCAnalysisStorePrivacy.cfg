SPECIFICATION Spec
CONSTANTS
    clean = clean
    tainted = tainted
    Files <- MCFiles
    Unclean <- MCUnclean
    Ambiguous <- MCAmbiguous
    Judged <- MCJudged
    Overrides <- MCOverrides
    Traces = {t1}
    Handlers = {h1}
CHECK_DEADLOCK FALSE
INVARIANT BlockedTextIsNotStored
