\* One account, two sessions, two requests at once and two erasure workers.
SPECIFICATION FairSpec
CONSTANTS
    alice = alice
    s1 = s1
    s2 = s2
    m1 = m1
    r1 = r1
    r2 = r2
    w1 = w1
    w2 = w2
    Users <- MCUsers
    Sids <- MCSids
    MailTokens <- MCMail
    Reqs <- MCReqs
    Workers <- MCWorkers
    AccessTtl = 2
    RefreshTtl = 3
    MailTtl = 2
    Grace = 3
    RequestTime = 1
    MaxNow = 6
    MaxRequests = 3
    MaxRotations = 2
    MaxUpdates = 1
    MaxFaults = 1
CHECK_DEADLOCK FALSE
INVARIANTS
    RotatesOnce
    AccessEnds
    LogoutShutsOut
    SessionsPostdatePassword
    ErasedIsOut
PROPERTIES
    DeactivatedIsErased
