SPECIFICATION FairSpec
CONSTANTS
    Id <- MCId
    Account <- MCAccount
    Client = {"ca", "cb"}
    NoClient = "none"
    BankId = "bank"
    PortAccount = "port"
    Rank <- MCRank
    Server = {"s1", "s2"}
    NoServer = "null"
    ThreadId = {1, 2}
    Itemized = TRUE
    LifeTime <- NoLimit
    MessageLoss <- NoLoss
    Script <- ScriptDeposit
    RetransTime = 1
    Lines <- Line2
    Spare = {"s2"}
    FaultDelay = 0
    PatientClients = FALSE
    PromptThreads = TRUE
    PromptMaster = FALSE
    MaxHands = 1
    MaxKills = 2
PROPERTIES
    Termination
CHECK_DEADLOCK FALSE
