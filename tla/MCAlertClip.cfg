SPECIFICATION FairSpec
CONSTANTS
    Pre = 3
    Post = 2
    RingTime = 5
    RingFrames = 8
    ClipFrames = 10
    Gop = 2
    GrantTime = 4
    Validity = 2
    Rest = 6
    MaxEvent = 2
    MaxLost = 1
INVARIANTS
    ClipIsFilm
    UploadOfItsGrant
    RingReady
PROPERTIES
    SavedUnchanged
    JobEnds
