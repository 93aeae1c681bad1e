SPECIFICATION Spec
CONSTANTS
    Names = {1, 2, 3, 4}
    TargetingKey = 2
    MaxAttributes = 3
    MaxStringBytes = 4
    MaxInt = 15
    Floats <- MCFloats
    FloatOverflow = 30
INVARIANTS
    SameProblemNamed
    ContextIsBounded
    ContextIsComplete
\* A request that was accepted or refused is done with.
CHECK_DEADLOCK FALSE
