SPECIFICATION FairSpec
CONSTANTS
    MaxSequence = 1
    MaxGeneration = 2
    MaxParallel = 1
PROPERTIES
    ScriptsEnd
    Collected
    ImplementsLeasedSession
\* The Bridge may be down for good, with no hand-off to start from.
CHECK_DEADLOCK FALSE
