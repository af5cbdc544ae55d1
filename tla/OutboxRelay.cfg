\* Two relay replicas, a crash and a lease overrun, sends that may always fail.
SPECIFICATION FairSpec
CONSTANTS
    r1 = r1
    r2 = r2
    Relays <- MCRelays
    Key <- MCOwnKey
    NumRows = 2
    ClaimLimit = 2
    PoisonAfter = 2
    SendRetries = 1
    MaxFaults = 1
CHECK_DEADLOCK FALSE
INVARIANTS
    CopiesBounded
    OneVerdict
PROPERTIES
    ImplementsPromise
    EveryRowSettles
