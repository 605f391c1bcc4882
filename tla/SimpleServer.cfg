CONSTANTS
    w1 = w1
    w2 = w2
    Workers <- Workers2
    ARRAY_SIZE = 2
    MaxSocks = 4
SPECIFICATION FairSpec
INVARIANTS
    ServesItsOwnSocket
    WorkNeverStranded
PROPERTIES
    ImplementsWorkQueue
    
CHECK_DEADLOCK FALSE
