SPECIFICATION FairSpec
CONSTANTS
    DetachedDescendants = TRUE
    StallingRuntime = FALSE
PROPERTIES
    ExecutionCapped
\* The execution is over, and its processes with it.
CHECK_DEADLOCK FALSE
