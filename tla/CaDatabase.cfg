CONSTANTS
    n1 = n1
    n2 = n2
    n3 = n3
    Names <- Names3
    Unique = TRUE
    FirstSerial = 0
    MaxSigned = 5
    MaxFaults = 3
SPECIFICATION Spec
INVARIANTS
    SerialIsAhead
    DeliveredIsRecorded
PROPERTY ImplementsCertAuthority
CHECK_DEADLOCK FALSE
