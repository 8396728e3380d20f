SPECIFICATION EventSpec
CONSTANTS
    Commands = {c1, c2}
    MaxRetries = 1
    Faults = {"P2034", "P2028", "marked", "business", "nested"}
    AckLossPossible = TRUE
    Listeners = {l1, l2}
    Announcing = {c1, c2}
INVARIANTS
    AppliedAtMostOnce
    OutcomeIsTruthful
    RetriesAreCounted
    ContentionAbsorbed
    RetryBoundsAgree
    EventTypeOK
    ListenersFollowCommit
PROPERTY
    ImplementsAtomicCommand
CHECK_DEADLOCK FALSE
