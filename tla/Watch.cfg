SPECIFICATION FairSpec
CONSTANTS
    Server = {1, 2, 3}
    Configured <- TwoServers
    Delays = {1, 5}
    ThreadId = {1}
    MaxQueue = 1
    MaxAge = 21
    PromptMaster = TRUE
INVARIANTS
    TypeOK
    NeverSuspected
    FoundInTime
PROPERTIES
    MembershipHolds
    KnownLeave
    StartedJoin
