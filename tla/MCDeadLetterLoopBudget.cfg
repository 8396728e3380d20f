SPECIFICATION Spec
CONSTANTS
    Event1 = Event1
    Poison = Poison
    Tombstone = Tombstone
    Unrouted = Unrouted
    Group1 = Group1
    Group2 = Group2
    Ids = {Event1}
    KindOf <- MCKindOf
    MaxRetries = 0
    MaxDisruptions = 0
    Replayers = {Group1}
    MaxReplays <- MCMaxReplays
    MaxLog = 4
INVARIANT ReplayBudget
CHECK_DEADLOCK FALSE
