SPECIFICATION FairSpec
CONSTANTS
    Id <- MCId
    Account <- MCAccount
    Client = {"ca", "cb"}
    NoClient = "none"
    BankId = "bank"
    PortAccount = "port"
    Rank <- MCRank
    Server = {"s1", "s2", "s3"}
    NoServer = "null"
    ThreadId = {1, 2, 3, 4}
    Itemized = TRUE
    LifeTime <- LivesLate
    MessageLoss <- EverySecond
    Script <- ScriptLong
    RetransTime = 1
    Lines <- Line3
    Spare = {}
    FaultDelay = 0
    PatientClients = TRUE
    PromptThreads = FALSE
    PromptMaster = TRUE
    MaxHands = 0
    MaxKills = 0
INVARIANTS
    SerialReplies
    Durable
    Agreed
PROPERTIES
    Remembered
    EveryRequestAnswered
