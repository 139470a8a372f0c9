\* Two transactions, one failure anywhere: at most one of them is lost, the other
\* is decided.  (A second failure could cost both, and says no more.)
CONSTANTS
    Txns = {t1, t2}
    Agents = {velocity}
    Decisions = {decision}
    NoTxn = none
    KnownGroup = TRUE
    MaxFaults = 1
SPECIFICATION FairSpec
INVARIANT OneLossPerFailure
PROPERTY DecidedOrLost
CHECK_DEADLOCK FALSE
