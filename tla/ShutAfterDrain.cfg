SPECIFICATION Spec
CONSTANTS
    Requests = {r1}
    Evaluations <- MCEvaluations
INVARIANT
    ProviderShutAfterDrain
CHECK_DEADLOCK FALSE
