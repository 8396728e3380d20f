SPECIFICATION FairSpec
CONSTANTS
    Event1 = Event1
    Poison = Poison
    Tombstone = Tombstone
    Unrouted = Unrouted
    Group1 = Group1
    Group2 = Group2
    Ids = {Event1, Poison, Unrouted}
    KindOf <- MCKindOf
    MaxRetries = 1
    MaxDisruptions = 1
    Replayers = {Group1, Group2}
    MaxReplays <- MCMaxReplays
    MaxLog = 3
INVARIANTS
    LoopTypeOK
    NothingSkipped
    EventNotLost
PROPERTIES
    NeverStalls
    ImplementsAtLeastOnce
CHECK_DEADLOCK FALSE
