\* Two erased users, two instances, crashes and failing statements everywhere.
SPECIFICATION FairCascadeSpec
CONSTANTS
    u1 = u1
    u2 = u2
    w1 = w1
    w2 = w2
    ErasedUsers <- MCUsers
    Workers <- MCWorkers
    Edges <- MCEdges
    LateEdges <- MCLate
    Batch = 1
    Rounds = 1
    MaxAttempts = 4
CHECK_DEADLOCK FALSE
INVARIANTS
    OneWorkerPerJob
    DoneMeansGone
PROPERTIES
    EveryJobSettles
