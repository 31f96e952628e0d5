SPECIFICATION Spec
CONSTANTS
    MaxKey = 3
    MaxOp = 3
    MaxPolicy = 2
INVARIANT
    PendingCanBeReplaced
CHECK_DEADLOCK FALSE
