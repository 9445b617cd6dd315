\* Three requests of up to three steps each.
SPECIFICATION FairSpec
CONSTANTS
    MaxSteps = 3
    MaxJobs = 3
INVARIANTS
    CoilsOffAtRest
    AtMostOnePhaseLate
PROPERTIES
    EveryRequestAnswered
