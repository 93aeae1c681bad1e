\* Startup, exit and blame: without traffic from New on, and with one request
\* from readiness on.  A process that has exited stops.
SPECIFICATION LiveSpec
CONSTANTS
    Requests = {r1}
    Evaluations <- MCEvaluations
PROPERTIES
    ProcessExits
    StartupIsDecided
    CutShortIsNoFailure
CHECK_DEADLOCK FALSE
