\* Two sessions in a row, a queue of one event, no WebRTC.
SPECIFICATION Spec
CONSTANTS
    QueueLen = 1
    MaxSession = 2
    MaxHello = 1
    Kinds = {"ttsStart", "ttsStop", "end"}
    RtcAttached = FALSE
INVARIANTS
    MicGate
    SendHasChannel
PROPERTIES
    ImplementsSession
