SPECIFICATION Spec
CONSTANTS
    Callers = {c1, c2, c3}
    Threshold = 2
    TimeoutMs = 1
    FailureCap = 3
INVARIANT AtMostOneProbe
