\* Two streams; the slots the code has.
SPECIFICATION FairSpec
CONSTANTS
    InSlots = 3
    OutSlots = 4
    MaxStreams = 2
INVARIANTS
    SlotsConserved
    FreshStart
    GateHasEncoder
PROPERTIES
    RequestsEnd
    StopReleases
