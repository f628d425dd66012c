CONSTANTS
    Owner = {1, 2}
    NoOwner = 0
    MaxAttempt = 2
    Agent = FALSE
    Intervenes = FALSE
    Cron = FALSE
    LaneRejects = TRUE
    Reviews = FALSE
    Commands = {"cancel"}
SPECIFICATION Spec
PROPERTIES CancelStopsDelivery
CHECK_DEADLOCK FALSE
