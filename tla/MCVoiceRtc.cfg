\* One session, interrupted by WebRTC at any moment.
SPECIFICATION Spec
CONSTANTS
    QueueLen = 1
    MaxSession = 1
    MaxHello = 1
    Kinds = {"ttsStart", "end"}
    RtcAttached = TRUE
INVARIANTS
    ReleasedForRtc
    EngineNotFreedInUse
    NeverDeaf
PROPERTIES
    ImplementsSession
