CONSTANTS
    p1 = p1
    p2 = p2
    p3 = p3
    Process <- MCProcess
    NoProcess = NoProcess
    MaxSequence = 6
SPECIFICATION Spec
INVARIANTS
    TypeOK
    GrantedIsDurable
PROPERTY ImplementsGrantLog
