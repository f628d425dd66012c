SPECIFICATION Spec
CONSTANTS
  Root = root
  Child = {c1, c2}
  Optional = {}
  Cancellable = {}
  RunStops = FALSE
  Retryable = {}
  Faults = 0
  MaxClaims = 4
PROPERTY DelegationReturns
CHECK_DEADLOCK FALSE
