\* Two groups on shared retry topics: duplicates, a redelivery, a redrive, a producer failure.
SPECIFICATION FairLadderSpec
CONSTANTS
    counters = counters
    cascade = cascade
    e1 = e1
    w1 = w1
    w2 = w2
    None = None
    Groups <- MCGroups
    Consumers <- MCConsumers
    GroupOf <- MCGroupOf
    Events <- MCEvents
    PartitionOf <- MCPartitionOf
    NumTiers = 1
    MaxFailures = 1
    MaxRepeats = 1
CHECK_DEADLOCK FALSE
INVARIANTS
    EffectAtMostOnce
    NoEventLost
PROPERTIES
    LadderEnds
