SPECIFICATION CheckpointSpec
CONSTANTS
    Ranks = {n0, n1}
    Roles <- ActorOnly
    Keep <- KeepOne
    StepsPerEpoch = 2
    TotalEpochs = 2
    TotalSteps = 4
    SaveFreq = 1
    CriticWarmup = 0
    EsiExpiry = {FALSE}
    MaxLaunches = 2
INVARIANT
    OnlyTornTrackerBlocks
CHECK_DEADLOCK FALSE
