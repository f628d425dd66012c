CONSTANTS
    Owner = {1, 2}
    NoOwner = 0
    MaxAttempt = 2
    Agent = FALSE
    Intervenes = FALSE
    Cron = FALSE
    LaneRejects = TRUE
    Reviews = TRUE
    Commands = {"interrupt"}
SPECIFICATION FairSpec
INVARIANTS TypeOK AtMostOnce OutcomeIsProven
PROPERTIES DeliverySettles
CHECK_DEADLOCK FALSE
