SPECIFICATION MCPodSpec
CONSTANTS
    Requests = {r1}
    Evaluations <- MCEvaluations
    DrainDelay = 2
    ShutdownTimeout = 4
    HandlerTimeout = 2
    InitTimeout = 2
    GracePeriod = 8
    StartupBudget = 4
    Propagation = 1
    NewTime = 1
    BodyTime = 1
    SilentTime = 3
INVARIANT
    SequenceIsBounded
CHECK_DEADLOCK FALSE
