SPECIFICATION Spec
CONSTANTS
    Requests = {r1}
    Evaluations <- MCEvaluations
INVARIANT
    GaugeMeansConfig
CHECK_DEADLOCK FALSE
