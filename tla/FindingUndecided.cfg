\* One failure: the offset of the transaction in hand is committed on the way out.
CONSTANTS
    Txns = {t1}
    Agents = {velocity, geo}
    Decisions = {decision}
    NoTxn = none
    KnownGroup = TRUE
    MaxFaults = 1
SPECIFICATION FairSpec
PROPERTY EveryTransactionDecided
CHECK_DEADLOCK FALSE
