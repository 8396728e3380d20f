SPECIFICATION FairSpec
CONSTANTS
    Callers = {c1, c2, c3, c4}
    Threshold = 2
    TimeoutMs = 2
    FailureCap = 4
INVARIANTS
    TypeOK
    TripsExactlyAtThreshold
    HalfOpenHasProbe
PROPERTY Recovery
