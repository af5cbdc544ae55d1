\* Two users, three posts, transactions of two sessions and mention repair on two replicas.
SPECIFICATION Spec
CONSTANTS
    alice = alice
    bob = bob
    p1 = p1
    p2 = p2
    p3 = p3
    s1 = s1
    s2 = s2
    r1 = r1
    r2 = r2
    c1 = c1
    c2 = c2
    Users <- MCUsers
    Mentioned = bob
    Ids <- MCIds
    Sessions <- MCSessions
    Replicas <- MCReplicas
    Conns <- MCConns
    Batch = 1
    Rounds = 2
    Author = alice
    First = p1
    MaxTx = 3
    MaxBegun = 4
SYMMETRY Symmetry
CHECK_DEADLOCK FALSE
INVARIANTS
    CountersMatch
    MentionedOnce
    DeletedIsAnnounced
    ErasureComplete
PROPERTIES
    LikeNeedsPost
