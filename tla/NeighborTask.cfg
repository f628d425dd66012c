CONSTANTS
    MaxTries = 3
    MaxCrash = 2
SPECIFICATION FairSpec
INVARIANTS TypeOK EnginesAgree CompletedRan
PROPERTIES KeepsPromise OriginLearns WaitResolves
CHECK_DEADLOCK FALSE
