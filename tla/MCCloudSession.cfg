\* Two wake words, one lost connection and one goodbye of the server.
SPECIFICATION FairSpec
CONSTANTS
    MaxWake = 2
    MaxDrop = 1
    MaxEnd = 1
INVARIANTS
    RecordOfThisConnection
    OwnSessionBound
PROPERTIES
    SessionComesBack
CHECK_DEADLOCK FALSE
