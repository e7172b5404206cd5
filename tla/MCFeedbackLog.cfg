SPECIFICATION Spec
CONSTANTS
    Feedbacks = {f1, f2, f3}
    Traces = {a, b}
    Officers = {o1, o2}
    OverStrict <- MCOverStrict
    Agreed <- MCAgreed
    FailuresHappen = TRUE
CHECK_DEADLOCK FALSE
SYMMETRY Symmetry
INVARIANTS
    TypeOK
    LogMatchesFeedback
PROPERTY ForgottenStaysForgotten
