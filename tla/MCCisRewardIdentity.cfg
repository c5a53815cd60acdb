SPECIFICATION RewardSpec
CONSTANTS
    u1 = u1
    u2 = u2
    a = a
    b = b
    NoAnswer = NoAnswer
    NoBox = NoBox
    Uids = {u1}
    Responses <- AnyResponse
    Correct <- OnePrompt
    IdentitySwapped = {u1}
    One = 10
    Alpha = 2
    Beta = 3
    FormatWeight = 1
    CfFormatWeight = 0
    MaxLen = 2
    MaxRows = 2
INVARIANT IdentitySwapIsNoise
CHECK_DEADLOCK FALSE
