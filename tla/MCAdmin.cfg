SPECIFICATION AdminSpec
CONSTANTS
    Probes = {p1, p2}
    MaxCount = 1
SYMMETRY ProbeSymmetry
INVARIANTS
    ObservationsAreOrdered
    ReportIsCoherent
    FailureIsNotHidden
\* The probes are answered and the bridge is down.
CHECK_DEADLOCK FALSE
