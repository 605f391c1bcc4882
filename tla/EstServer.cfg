SPECIFICATION Spec
CONSTANTS
    Workers = {w1}
    Users = {alice, bob}
    NULL = NULL
    NoUser = NoUser
    Configs <- MCConfigs
    MaxRequests = 3
    MaxChanges = 2
SYMMETRY Symmetry
INVARIANTS
    OnlyAuthenticated
    OnlyCheckedCsr
    AnsweredOnce
    AsksForPopOnce
