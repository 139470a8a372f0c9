\* Every set of verdicts on a grid around the thresholds, four categories.
CONSTANTS
    RawTypes = {"ESEWA_P2P", "CARD_POS", "ATM_WITHDRAWAL", "UTILITY_BILL"}
    Risks = {0, 25, 30, 70, 71}
    Confidences = {0, 20, 100}
    Settings <- Sample
SPECIFICATION Spec
INVARIANTS DecisionBacked AlarmHeard QuietPasses SurerAlarm
CHECK_DEADLOCK FALSE
