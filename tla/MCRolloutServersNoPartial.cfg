SPECIFICATION Spec
CONSTANTS
    Standalone = {s1}
    Hybrid = {}
    Requests = {r1}
    PartialRollout = FALSE
    Updates = 2
INVARIANT AnswersComplete
CHECK_DEADLOCK FALSE
