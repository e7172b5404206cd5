SPECIFICATION Spec
CONSTANTS
    Feedbacks = {f1, f2}
    Traces = {a, b}
    Officers = {o1, o2}
    OverStrict <- MCOverStrict
    Agreed <- MCAgreed
    FailuresHappen = FALSE
CHECK_DEADLOCK FALSE
SYMMETRY Symmetry
INVARIANT IgnoredIsForgotten
