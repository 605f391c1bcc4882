CONSTANTS
    p1 = p1
    p2 = p2
    c1 = c1
    Peers <- Peers2
    KeyOf <- DistinctKeys
    EndpointOf <- TwoEndpoints
    Certified <- Peers1
    Csrs = {c1}
    Blocks = 2
    RespBlocks = 2
    UploadOps = {"SEN", "SKG"}
    FetchOps = {"CRTS", "ATT"}
    EnrollErrors = {"HTTP_NO_CONTENT"}
    Lengths <- SomeLengths
    FrameLengths <- BoundaryLengths
    Options <- OptionsSome
    SessionMaxes = {1, 2}
    PortNums = {5683}
    PERF = TRUE
    MaxIssue = 2
    MaxVersion = 1
SPECIFICATION Spec
INVARIANTS
    TypeOK
    
    
    OneTimerRuns
    KeygenAnswerDecodes

    
