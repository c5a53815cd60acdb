SPECIFICATION Spec
CONSTANTS
    Required = 1
    Trigger = 1
    Extra = 1
    MaxTasks = 1
    Total = 5
    TestFreq = 1
    SaveFreq = 1
    MaxFailures = 0
INVARIANT GeneratesAtMost
