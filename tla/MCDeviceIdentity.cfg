SPECIFICATION Spec
CONSTANTS
    MaxKey = 3
    MaxOp = 3
    MaxPolicy = 2
INVARIANTS
    TypeOK
    KeyNotLost
    CredentialOfKey
    MigrationCanFinish
CHECK_DEADLOCK FALSE
