SPECIFICATION Spec
CONSTANTS
    Id <- MCId
    Account <- MCAccount
    Client = {"ca", "cb"}
    NoClient = "none"
    BankId = "bank"
    PortAccount = "port"
    Rank <- MCRank
    Server = {"s1", "s2"}
    NoServer = "null"
    ThreadId = {1, 2}
    Itemized = TRUE
    LifeTime <- NoLimit
    MessageLoss <- NoLoss
    Script <- ScriptTen
    RetransTime = 1
    Lines <- Line2
    Spare = {"s2"}
    FaultDelay = 1
    PatientClients = TRUE
    PromptThreads = TRUE
    PromptMaster = TRUE
    MaxHands = 0
    MaxKills = 0
INVARIANTS
    NewTailSynchronized
