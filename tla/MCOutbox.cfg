SPECIFICATION FairSpec
CONSTANTS
    NumRows = 3
    Publishers = {p1, p2}
    BatchSize = 2
    MaxAttempts = 2
    MaxDisruptions = 2
    AggregateOf <- MCAggregateOf
INVARIANTS
    TypeOK
    ProcessedWasPublished
    NoPrematureDeadLetter
    SingleHolder
    DeadLetterCountedOnce
PROPERTIES
    SettledIsFinal
    EverythingSettles
CHECK_DEADLOCK FALSE
