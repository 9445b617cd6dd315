\* Two photo requests in a row, two frame slots.  No symmetry: liveness.
SPECIFICATION FairSpec
CONSTANTS
    Slots = {s1, s2}
    NoSlot = NoSlot
    MaxRequests = 2
INVARIANTS
    SavedFrameHeld
PROPERTIES
    AnsweredOnce
    EveryRequestAnswered
CHECK_DEADLOCK FALSE
