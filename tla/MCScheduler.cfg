CONSTANTS
    r1 = r1
    r2 = r2
    r3 = r3
    r4 = r4
    r5 = r5
    spaceA = spaceA
    spaceB = spaceB
    spaceC = spaceC
    spaceD = spaceD
    tabX = tabX
    tabY = tabY
    Request <- MCRequest
    Space <- MCSpace
    Tab <- MCTab
    Maximum <- MCMaximum
    Joined <- MCJoined
SPECIFICATION Spec
INVARIANTS
    TypeOK
    SummariesExact
    AdmissionExact
PROPERTY ImplementsScopeLocks
