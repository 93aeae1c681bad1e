\* The durations keep the order of the Deployment's: a body and an evaluation,
\* or a silent connection, fit the shutdown timeout, the drain delay outlasts
\* the propagation, and the probe and the grace period are patient enough.
SPECIFICATION MCPodSpec
CONSTANTS
    Requests = {r1}
    Evaluations <- MCEvaluations
    DrainDelay = 2
    ShutdownTimeout = 4
    HandlerTimeout = 2
    InitTimeout = 2
    GracePeriod = 8
    StartupBudget = 4
    Propagation = 1
    NewTime = 1
    BodyTime = 1
    SilentTime = 3
INVARIANTS
    GraceSuffices
    DrainFailureIsClients
    FailureIsBlamed
    OutageIsSurvived
    RoutedIsServed
\* The process exits, or is killed.
CHECK_DEADLOCK FALSE
