SPECIFICATION Spec
CONSTANTS
    s1 = s1
    s2 = s2
    NULL = NULL
    Threads = {4, 5}
    Deployments <- TwoWorkers
    Segments = {s1, s2}
    Failures = {"SSL_CONNECT"}
    Statuses = {"HTTP_NO_CONTENT"}
    Delays = {1, 2}
    InitialCtxs = 2
    Spaced = FALSE
    MaxArray = 2
    MaxClients = 3
    MaxChains = 2
    MaxInits = 1
INVARIANTS
    OwnContext
CHECK_DEADLOCK FALSE
