SPECIFICATION Spec
CONSTANTS
    \* CisSwapMap
    N = 4
    Budget = 3
    MaxPasses = 2
    NoThinkTokens = 1
    MaxEpoch = 1
    Datasets <- MCDatasets
    SwapOffsets = {0, 1, 4}
    ShuffleOptions = {TRUE, FALSE}
    \* CisReward
    u1 = u1
    u2 = u2
    a = a
    b = b
    NoAnswer = NoAnswer
    NoBox = NoBox
    Uids = {u1, u2}
    Responses <- AnyResponse
    Correct <- TwoPrompts
    IdentitySwapped = {}
    One = 10
    Alpha = 2
    Beta = 3
    FormatWeight = 1
    CfFormatWeight = 1
    MaxLen = 2
    MaxRows = 4
    \* GrpoStep
    Prompts = 2
    BatchSize = 2
    RolloutN = 2
    Workers = 2
    DpSize = 2
    Shuffles = {FALSE, TRUE}
    Estimators = {"grpo", "remax"}
    Balances = {FALSE, TRUE}
    Outcomes <- TwoOutcomes
    FitEpochs = 1
    \* SeqlenBalancing
    Calls <- MCCalls
    Limit = 4
    Linear = 24576
    \* PpoCheckpoint
    Ranks = {n0, n1}
    Roles <- ActorAndCritic
    Keep <- KeepTwoAndThree
    StepsPerEpoch = 2
    TotalEpochs = 3
    TotalSteps = 6
    SaveFreq = 2
    CriticWarmup = 2
    EsiExpiry = {TRUE, FALSE}
    MaxLaunches = 3
INVARIANTS
    SwapTypeOK
    PermutationUnderRepair
    OverflowOnlyBySuffix
    SilentBuildIsClean
    RewardsFollowGroups
    InfoCoversRows
    EntriesInRowOrder
    StepTypeOK
    ColumnsAligned
    AdvantageIgnoresOrder
    EpochServesEachItemOnce
    BalancingTypeOK
    ItemsOnce
    SpreadBounded
    BalancedResult
    RestoredInOrder
    FailsOnlyWhenRounded
    CheckpointTypeOK
    TrackedIsComplete
    OnlyTornTrackerBlocks
    RetentionKept
    FinishedMeansTrained
PROPERTIES
    RepairNeverBreaks
    TrainsOnWholeEpochs
CHECK_DEADLOCK FALSE
