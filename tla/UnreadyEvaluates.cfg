SPECIFICATION OfrepSpec
CONSTANTS
    Requests = {r1}
    Evaluations <- MCEvaluations
INVARIANT
    UnreadyNeverEvaluates
CHECK_DEADLOCK FALSE
