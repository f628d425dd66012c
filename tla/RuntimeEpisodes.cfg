SPECIFICATION Spec
CONSTANTS
  Root = root
  Child = {c1, c2}
  Optional = {c2}
  Cancellable = {root}
  RunStops = TRUE
  Retryable = {c1}
  Faults = 1
  MaxClaims = 4
INVARIANTS TypeOK LandedByHolder JoinedAfterAll
PROPERTIES TerminalStays CancelEndsEpisode ParentResumes
CHECK_DEADLOCK FALSE
