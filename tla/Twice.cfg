SPECIFICATION Spec
CONSTANTS
    Server = {1, 2, 3}
    Configured <- OneServer
    Delays = {1}
    ThreadId = {1, 2}
    MaxQueue = 2
    MaxAge = 21
    PromptMaster = FALSE
INVARIANTS
    JoinsOnce
