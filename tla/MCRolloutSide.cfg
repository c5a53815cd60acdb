SPECIFICATION SideSpec
CONSTANTS
    \* WeightTransfer
    Ranks = {g1, g2}
    Sizes <- MixedSizes
    Bucket = 2
    \* RolloutServers
    Standalone = {s1}
    Hybrid = {h1}
    Requests = {r1, r2}
    PartialRollout = TRUE
    Updates = 3
INVARIANTS
    TransferTypeOK
    MergesInOrder
    TypeOK
    LoadTracked
    VersionsReported
PROPERTIES
    WeightsDelivered
    RequestsAnswered
CHECK_DEADLOCK FALSE
