CONSTANTS
    Owner = {1, 2}
    NoOwner = 0
    MaxAttempt = 2
    Agent = TRUE
    Intervenes = TRUE
    Cron = TRUE
    LaneRejects = FALSE
    Reviews = TRUE
    Commands = {"cancel", "resume", "pause", "retry"}
SPECIFICATION Spec
INVARIANTS CompletedHasEvidence
PROPERTIES CancelFencesAttempt
CHECK_DEADLOCK FALSE
