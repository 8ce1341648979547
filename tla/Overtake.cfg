SPECIFICATION Spec
CONSTANTS
    Id <- MCId
    Account <- MCAccount
    Client = {"ca", "cb"}
    NoClient = "none"
    BankId = "bank"
    PortAccount = "port"
    Rank <- MCRank
    Server = {"s1", "s2", "s3"}
    NoServer = "null"
    ThreadId = {1, 2}
    Itemized = TRUE
    LifeTime <- NoLimit
    MessageLoss <- NoLoss
    Script <- ScriptDeposit
    RetransTime = 1
    Lines <- Line3
    Spare = {"s3"}
    FaultDelay = 1
    PatientClients = TRUE
    PromptThreads = TRUE
    PromptMaster = FALSE
    MaxHands = 1
    MaxKills = 1
INVARIANTS
    TailExtended
