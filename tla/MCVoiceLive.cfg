\* Sessions without an id, interrupted by WebRTC at any moment, under fairness.
SPECIFICATION FairSpec
CONSTANTS
    QueueLen = 1
    MaxSession = 0
    MaxHello = 1
    Kinds = {}
    RtcAttached = TRUE
PROPERTIES
    RtcAnswered
    WakeRearmed
