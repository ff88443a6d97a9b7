SPECIFICATION MC_Spec
CONSTANTS
    Requests <- MC_Requests
    Deployments <- MC_Deployments
    MaxInvocations = 3
    MaxApprovals = 1
    MaxFaults = 1
    Listings <- MC_Listings
    MAX_EVENTS_PER_POLL = 2
    SEEN_KEYS = 6
    MaxRecords = 7
    MaxPerTick = 3
    MaxTime = 2
    MaxFailures = 1
    Tokens <- MC_Tokens
    Tolerance = 1
    Retention = 5
    MaxErrors = 1
    Batches <- MC_Batches
    MaxCalls = 3
INVARIANTS HubTypeOK DoneOnce ToldOnce NothingSkipped GrantedOnce AnsweredBatchIsKept AuthorityIsCurrent
PROPERTIES WithdrawnAuthorityHasNoEffect AnsweredIsNotRepeated CatchesUp
CHECK_DEADLOCK FALSE
