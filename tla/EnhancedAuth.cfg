CONSTANTS
    w1 = w1
    w2 = w2
    m1 = m1
    m2 = m2
    d1 = d1
    d2 = d2
    Workers = {w1, w2}
    NUM_SUPPORTED_MFG = 2
    Mfgs = {m1, m2}
    Nids = {"CN", "serialNumber"}
    NidOf <- NidOfMfg
    Devices = {d1, d2}
    MadeBy <- MadeByMfg
    Value = {"a", "b", "c", "none"}
    Subject <- SubjectOf
    Csrs <- AskedFor
    LocalNids = {"CN"}
    Absent = "none"
    NoOne = NoOne
    MaxRequests = 2
    MaxChanges = 1
SPECIFICATION Spec
INVARIANTS
    UserFromOwnCertificate
    
PROPERTIES
    RegistrationsKept
    RequestDecided
CHECK_DEADLOCK FALSE
