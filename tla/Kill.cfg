SPECIFICATION Spec
CONSTANTS
    Id <- MCId
    Account <- MCAccount
    Client = {"ca", "cb"}
    NoClient = "none"
    BankId = "bank"
    PortAccount = "port"
    Rank <- MCRank
    Server = {"s1", "s2", "s3", "s4"}
    NoServer = "null"
    ThreadId = {1, 2, 3, 4, 5, 6}
    Itemized = TRUE
    LifeTime <- NoLimit
    MessageLoss <- NoLoss
    Script <- ScriptShort
    RetransTime = 1
    Lines <- Line4
    Spare = {}
    FaultDelay = 1
    PatientClients = TRUE
    PromptThreads = TRUE
    PromptMaster = TRUE
    MaxHands = 0
    MaxKills = 2
INVARIANTS
    Booked
    Kept
    Linked
