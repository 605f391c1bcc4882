SPECIFICATION FairSpec
CONSTANTS
    t1 = t1
    t2 = t2
    gateway = gateway
    iot = iot
    bad = bad
    none = none
    k1 = k1
    Threads <- TwoThreads
    Tenants <- TwoTenants
    DefaultTenant = gateway
    BadTenant = bad
    NoTenant = none
    ClientKeys <- OneKey
    NoOne = NoOne
    Kinds <- AllKinds
    MaxRequests = 2
    MaxFailures = 1
    MaxCrashes = 1
 
INVARIANT OwnCertificate
 
INVARIANT ApprovedAfterRetry
INVARIANT CacertsServed
PROPERTY EveryRequestAnswered
