\* Three concurrent requests, two bodies of which one is refused, faults at every step.
SPECIFICATION FairSpec
CONSTANTS
    r1 = r1
    r2 = r2
    r3 = r3
    b1 = b1
    b2 = b2
    Requests <- MCRequests
    Bodies <- MCBodies
    BadBodies <- MCBad
    DuplicateDetect = TRUE
CHECK_DEADLOCK FALSE
INVARIANTS
    AnswersAgree
    AnswersAreTrue
PROPERTIES
    MarkerGoes
