SPECIFICATION Spec
CONSTANTS
    MaxSequence = 2
    MaxGeneration = 1
    MaxParallel = 1
INVARIANTS
    TypeOK
    StartedOnce
    RevocationWins
    NoWorkBetweenSessions
    LostRevocationIsHarmless
PROPERTY ScriptsInOrder
\* The Bridge may be down for good, with no hand-off to start from.
CHECK_DEADLOCK FALSE
