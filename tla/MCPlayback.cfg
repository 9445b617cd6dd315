SPECIFICATION FairSpec
CONSTANTS
    MaxSession = 2
    Sent <- SentOnce
    SeqSpace = 16
    FirstSeq = 14
    PoolSize = 2
    QueueDepth = 2
    ReadyDepth = 1
    Margin = 2
    Patience = 1
INVARIANTS
    PoolConserved
    KeyOfChannel
PROPERTIES
    SpokenInOrder
    SpeaksForSession
    MicAfterHeard
    TurnsEnd
