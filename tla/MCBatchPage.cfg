SPECIFICATION PageSpec
CONSTANTS
    a = a
    b = b
    kept = kept
    Jobs = {a, b}
    Total <- MCTotal
    Results = {kept}
    Selectable = {kept}
    NoJob = NoJob
    MaxVisits = 2
    MaxPolls = 2
CHECK_DEADLOCK FALSE
INVARIANT UnfinishedIsSaved
PROPERTY CompletedIsShown
