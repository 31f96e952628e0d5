SPECIFICATION GuardedFairSpec
CONSTANTS
    DetachedDescendants = TRUE
    StallingRuntime = TRUE
    t1 = t1
    foreign = foreign
    Tokens = {t1}
    Others = {foreign}
    Sizes = {1, 2}
    MaxFiles = 2
    MaxBytes = 3
    MaxMeddling = 1
INVARIANTS
    GuardedTypeOK
    ManagedGroupEnded
    SupervisorOutlivesGroup
    WithinBudget
PROPERTIES
    GuardedExecutionEnds
    OrphansEnd
    NoLateReplacement
    NoStagingLeft
    OnlyKnownTargetReplaced
    ImplementsScriptLife
\* The execution is over, and its processes with it.
CHECK_DEADLOCK FALSE
