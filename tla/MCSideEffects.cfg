CONSTANTS
    Owner = {c1, c2, c3, c4}
    NoOwner = none
    Key = {k1, k2}
    ReplaySafe = {k2}
SYMMETRY Symmetry
SPECIFICATION Spec
INVARIANTS TypeOK ExclusiveExecution NoUnconfirmedRepeat CompletionHasEvidence
CHECK_DEADLOCK FALSE
