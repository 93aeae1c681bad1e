SPECIFICATION OfrepSpec
CONSTANTS
    Requests = {r1}
    Evaluations <- MCEvaluations
INVARIANTS
    CountedOnce
    RetryAfterOnEvery503
    DrainKeepsServing
    UnreadyIsNotEvaluated
    LastErrorIsFailure
    ReadyHasProvider
    RefusalStopsTracer
PROPERTIES
    ShutdownIsFinal
    ReadyAtMeansReady
    StartReturns
    EvaluationIsAnswered
    WorkerEnds
CHECK_DEADLOCK FALSE
