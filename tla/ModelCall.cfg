CONSTANTS
    Attempt = {a1, a2, a3, a4, a5}
    NoAttempt = none
    MinimumSamples = 2
    RateNum = 3
    RateDen = 5
    Budgeted = {a1, a2, a3}
    Estimate = 2
    Usage = {3}
    DailyLimit = 5
    RunLimit = 6
    LastDay = 1
SPECIFICATION WorldSpec
INVARIANTS CallTypeOK OneProbe ClosedIsProven OpenIsEarned AccountedOnce WithinLimits
PROPERTIES DispatchedStaysHeld CircuitReopens ReservationReturns
CHECK_DEADLOCK FALSE
