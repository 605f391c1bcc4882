SPECIFICATION Spec
CONSTANTS
    s1 = s1
    s2 = s2
    NULL = NULL
    Threads = {4, 5}
    Deployments <- MCDeployments
    Segments = {s1, s2}
    Failures = {"SSL_CONNECT"}
    Statuses = {"HTTP_NO_CONTENT"}
    Delays = {1, 2}
    InitialCtxs = 1
    Spaced = TRUE
    MaxArray = 4
    MaxClients = 3
    MaxChains = 2
    MaxInits = 2
INVARIANTS
    TypeOK
    
    RetriedOnce
    RelayedAsItIs

    
CHECK_DEADLOCK FALSE
