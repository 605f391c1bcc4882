SPECIFICATION Spec
CONSTANTS
    r1 = r1
    r2 = r2
    NoPeer = NoPeer
    NULL = NULL
    Roots = {r1, r2}
    Hosts <- MCHosts
    Peers <- MCPeers
    Deployments <- ProvisionDeployments
    AddressLists <- MCAddressLists
    Answers <- MCAnswers
    KeygenAnswers <- MCKeygenAnswers
    KeyPairs <- MCKeyPairs
    Arguments <- MCArguments
    CertMax = 2
    CaMax = 4
    IntMax = 1
    MaxCalls = 3
    DataMax = 3
    MinLen = 2
    BoundaryMax = 3
INVARIANT
    NewAnchorUsed
CHECK_DEADLOCK FALSE
