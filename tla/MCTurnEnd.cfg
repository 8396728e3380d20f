SPECIFICATION Spec
CONSTANTS
    service = service
    reader = reader
    answer = answer
    store = store
    failure = failure
    client = client
    Files = {service, reader, answer}
    Authored = {service}
    Holds <- MCHolds
    Depends <- MCDepends
    Checkouts <- MCNearLayouts
    Drafts <- MCDrafts
    BansCommon = TRUE
    MaxClock = 2
INVARIANTS TypeOK NoneUnprompted IndexFollowsMemory
PROPERTIES RefilingHelps TurnEnds
