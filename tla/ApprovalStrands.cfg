CONSTANTS
    Approval = {a, b}
    MaxAttempt = 1
    MaxRestart = 0
    Rpa = FALSE
    Yields = {"ask"}
SPECIFICATION FairSpec
PROPERTY DecisionTakenUp
CHECK_DEADLOCK FALSE
