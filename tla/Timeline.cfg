\* A reader, another follower and an author who is large with both of them.
SPECIFICATION Spec
CONSTANTS
    ann = ann
    ben = ben
    cat = cat
    Users <- MCUsers
    Readers <- MCReaders
    Authors <- MCAuthors
    MayFollow <- MCMayFollow
    Threshold = 2
    FollowerPage = 2
    FollowingPage = 1
    Looked = 1
    MaxPulled = 1
    Cap = 2
    Limit = 1
    Over = 3
    MaxPosts = 3
    Written <- MCWritten
    MaxChanges = 2
CHECK_DEADLOCK FALSE
INVARIANTS
    WarmIsComplete
PROPERTIES
    NoneShownTwice
    ServedIsAllowed
