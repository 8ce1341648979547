SPECIFICATION Spec
CONSTANTS
    Id <- MCId
    Account <- MCAccount
    Client = {"ca", "cb"}
    NoClient = "none"
    BankId = "bank"
    PortAccount = "port"
    Rank <- MCRank
    Server = {"s1", "s2"}
    NoServer = "null"
    ThreadId = {1, 2}
    Itemized = TRUE
    LifeTime <- OnlyS2
    MessageLoss <- NoLoss
    Script <- ScriptShort
    RetransTime = 0
    Lines <- Line2
    Spare = {"s2"}
    FaultDelay = 0
    PatientClients = FALSE
    PromptThreads = FALSE
    PromptMaster = TRUE
    MaxHands = 0
    MaxKills = 1
INVARIANTS
    TypeOK
    NonNegative
    Linked
CHECK_DEADLOCK FALSE
