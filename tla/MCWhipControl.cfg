\* A session that is started and stopped any number of times, and stops that
\* name another one.
SPECIFICATION Spec
\* A refused request does nothing: with the queue full and no controller
\* nothing else is left to happen.
CHECK_DEADLOCK FALSE
CONSTANT MaxSession = 1
INVARIANTS
    NothingLeftBehind
    StartNotLost
    ReadyOfThisStream
    BlindSessionStops
