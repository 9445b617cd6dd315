\* Messages of up to two buffers, cut in every way.
SPECIFICATION DownlinkSpec
CONSTANTS
    DownlinkMax = 4
    EventMax = 4
    MessageMax = 8
INVARIANTS
    RoomForZero
    NeverMixed
