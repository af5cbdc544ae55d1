\* An author with more followers than one page of ids, and not large: a follower is left out.
SPECIFICATION Spec
CONSTANTS
    ann = ann
    ben = ben
    cat = cat
    Users <- MCUsers
    Readers <- MCReaders
    Authors <- MCAuthors
    MayFollow <- MCMayFollow
    Threshold = 3
    FollowerPage = 1
    FollowingPage = 1
    Looked = 1
    MaxPulled = 1
    Cap = 2
    Limit = 1
    Over = 3
    MaxPosts = 3
    Written <- MCWritten
    MaxChanges = 1
CHECK_DEADLOCK FALSE
INVARIANTS
    WarmIsComplete
