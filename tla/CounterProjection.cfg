\* Two users within one batch, two failures, one silent removal.
SPECIFICATION FairSpec
CONSTANTS
    alice = alice
    bob = bob
    carol = carol
    Users <- MCTwo
    Oldest <- MCTwoOldest
    Limit = 2
    MaxChanges = 3
    MaxFaults = 2
    MaxSilent = 1
CHECK_DEADLOCK FALSE
INVARIANTS
    DriftIsUpward
PROPERTIES
    Converges
