CONSTANTS
    p1 = p1
    c1 = c1
    c2 = c2
    Peers = {p1}
    KeyOf <- KeyOfP
    EndpointOf <- OneEndpoint
    Certified = {p1}
    Csrs = {c1, c2}
    Blocks = 3
    RespBlocks = 2
    UploadOps = {"SEN"}
    FetchOps = {}
    EnrollErrors = {"CA_ENROLL_RETRY"}
    Lengths <- OneLength
    FrameLengths = {}
    Options <- OptionsOk
    SessionMaxes = {2}
    PortNums = {5683}
    PERF = FALSE
    MaxIssue = 3
    MaxVersion = 0
    Client = p1
    Plan <- Plan2
    Single = FALSE
    Reorder = FALSE
    MaxTries = 3
SPECIFICATION FairTransferSpec
INVARIANTS
    UploadsKeptApart
PROPERTY EveryUploadSucceeds
CHECK_DEADLOCK FALSE
