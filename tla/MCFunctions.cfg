\* LoadConfig and mapResult, on the inputs MCFunctions lists.
\* Each is called once and returns.
SPECIFICATION Spec
INVARIANTS
    FailuresReported
    OutcomesMatch
    NotReadyRetryable
    ValuesNotInvented
    ProblemsAreIndependent
CHECK_DEADLOCK FALSE
