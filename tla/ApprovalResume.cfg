CONSTANTS
    Approval = {a, b}
    MaxAttempt = 2
    MaxRestart = 1
    Rpa = FALSE
    Yields = {"ask", "pause", "slow"}
SPECIFICATION WorldSpec
INVARIANTS TypeOK DeliveredOnce RowNamesWorker
PROPERTIES StoppedStaysStopped QuietTakenUp
CHECK_DEADLOCK FALSE
