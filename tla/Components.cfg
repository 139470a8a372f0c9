SPECIFICATION Spec
CONSTANTS
    Deciders = {api, orchestrator}
    Puts = {p1, p2}
    Bodies <- SettingsBodies
    Defaults <- PaperDefaults
    CacheSeconds = 2
    MaxSettingsFaults = 2
    Requests = {r1, r2, r3}
    Tokens = {k1, k2}
    NoToken = NoToken
    SessionTtl = 2
    CustomerTtl = 2
    MaxChanges = 1
    MaxAccessFaults = 1
    Entries = {e1, e2, e3}
    NoEntry = NoEntry
    MaxLogFaults = 2
    MaxFlips = 2
    DemoAccount = 1
    DemoAccount2 = 2
    RingCollector = 4
    OtherAccounts = {3, 5}
    Profiles = {4}
    HistoryOf <- SeededHistory
    LiveTxns = {20}
    MaxSeeds = 2
    VelocityFacts <- VelocitySample
    GeoFacts <- GeoSample
    Networks <- NetworkSample
    BehaviorFacts <- BehaviorSample
    Grids <- ModelGrids
    ScoredAccount <- Payer
    ScoredTypes = {"KHALTI_QR", "ESEWA_P2P", "ATM_WITHDRAWAL", "UTILITY_BILL"}
    Transfers <- LiveIds
    Past <- PastIds
    LstmMinHistory = 4
    SeqLen = 3
    MaxTime = 1
    MaxStatementFaults = 1
    Panel = {"velocity", "behavior"}
    PanelScores = {0, 65, 95}
    Silent = Silent
    Requested <- NightWithdrawals
    MaxRuns = 2
\* Every component stops when it has done all its bounds allow.
CHECK_DEADLOCK FALSE
INVARIANTS
    ChangeTakesEffect
    ConsoleAgrees
    LogoutIsFinal
    
    OneStoreDecides
    HealthTellsTruth
    
    SameChoiceKeepsOwner
    
    HardEvidenceHeard
    LiveIsFullyScored
    
