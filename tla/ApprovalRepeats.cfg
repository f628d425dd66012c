CONSTANTS
    Owner = {1, 2, 3}
    NoOwner = 0
    MaxAttempt = 2
    Agent = TRUE
    Intervenes = TRUE
    Cron = FALSE
    LaneRejects = FALSE
    Reviews = FALSE
    Commands = {}
SPECIFICATION Spec
INVARIANTS AtMostOnce
CHECK_DEADLOCK FALSE
