\* One transaction, two agents, two failures.
CONSTANTS
    Txns = {t1}
    Agents = {velocity, geo}
    Decisions = {decision}
    NoTxn = none
    KnownGroup = TRUE
    MaxFaults = 2
SPECIFICATION Spec
SYMMETRY Symmetry
INVARIANTS DecisionClosesRun FewDecisions
CHECK_DEADLOCK FALSE
