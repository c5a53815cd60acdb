SPECIFICATION SwapSpec
CONSTANTS
    N = 4
    Budget = 3
    MaxPasses = 2
    NoThinkTokens = 1
    MaxEpoch = 1
    Datasets <- MCDatasets
    SwapOffsets = {0, 1, 4}
    ShuffleOptions = {TRUE, FALSE}
INVARIANT NoPromptOverflow
CHECK_DEADLOCK FALSE
