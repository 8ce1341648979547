SPECIFICATION FairSpec
CONSTANTS
    Server = {1, 2}
    Configured <- TwoServers
    Delays = {1}
    ThreadId = {1}
    MaxQueue = 2
    MaxAge = 21
    PromptMaster = TRUE
PROPERTIES
    FailedLeave
