\* Two sessions on two users, statement by statement.
SPECIFICATION FairSpec
CONSTANTS
    alice = alice
    bob = bob
    s1 = s1
    s2 = s2
    Users <- MCUsers
    Sessions <- MCSessions
    MaxTx = 4
CHECK_DEADLOCK FALSE
INVARIANTS
    RelationLedger
    EveryEdgeAnnounced
    BlockHolds
PROPERTIES
    EveryTxEnds
