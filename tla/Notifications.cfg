\* Three events, two of one actor and group, two consumers, one connection.
SPECIFICATION Spec
CONSTANTS
    c1 = c1
    c2 = c2
    e1 = e1
    e2 = e2
    e3 = e3
    ann = ann
    ben = ben
    me = me
    Unseen = Unseen
    Skipped = Skipped
    Dollar = Dollar
    Consumers <- MCConsumers
    Events <- MCEvents
    ActorOf <- MCActorOf
    GroupOf <- MCGroupOf
    Me = me
    Hours = {0, 1}
    ActorCap = 1
    MaxLen = 2
    CatchUpCount = 2
    Batch = 1
    HydrateMax = 1
    Block = 2
    CheckEvery = 2
    KeyLife = 5
    TicketLife = 1
    MaxChanges = 1
SYMMETRY MCSymmetry
CHECK_DEADLOCK FALSE
INVARIANTS
    CountsEvents
    ShownIsCurrent
    DeliveredInOrder
    RevokedStops
