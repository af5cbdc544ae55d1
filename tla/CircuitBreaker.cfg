\* Three calls; the timeout above the cool-down, so that calls of an outage end
\* in any later state.
SPECIFICATION FairBreakerSpec
CONSTANTS
    c1 = c1
    c2 = c2
    c3 = c3
    Calls <- MCCalls
    VolumeThreshold = 2
    ErrorPercent = 50
    HalfOpenAfter = 2
    Deadline = 3
    MaxFlips = 4
CHECK_DEADLOCK FALSE
INVARIANTS
    ProbeIsAlone
    NeverWedged
PROPERTIES
    RecoversWhenUp
