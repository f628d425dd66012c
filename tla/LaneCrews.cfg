CONSTANTS
    Executor = {"r1"}
    Maintenance = {"r2"}
    Chat = {"r3", "r4"}
    Run = {"r1", "r2", "r3", "r4"}
    RunOf <- OwnRun
    NoRun = none
    Policies = {"queue", "reject"}
    SetupRaises = TRUE
SPECIFICATION CrewSpec
INVARIANTS OneRunAtATime EditsAlone RowSettles
PROPERTY ExecutorsProceed
CHECK_DEADLOCK FALSE
