SPECIFICATION Spec
CONSTANTS
    NumRows = 3
    Publishers = {p1}
    BatchSize = 3
    MaxAttempts = 2
    MaxDisruptions = 0
    AggregateOf <- MCAggregateOf
INVARIANT PerAggregateOrder
CHECK_DEADLOCK FALSE
