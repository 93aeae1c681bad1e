SPECIFICATION MCSpec
CONSTANTS
    Requests = {r1}
    Evaluations <- MCEvaluations
INVARIANTS
    TypeOK
    CleanExitStrandsNothing
    ProviderOutlivesHandlers
    ShutdownOrder
    SuccessNeedsSignal
PROPERTIES
    ImplementsLifecycle
    ImplementsOfrep
\* The process exits.
CHECK_DEADLOCK FALSE
