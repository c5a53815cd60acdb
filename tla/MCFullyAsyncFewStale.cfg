SPECIFICATION Spec
CONSTANTS
    Required = 1
    Trigger = 2
    Extra = 1
    MaxTasks = 2
    Total = 7
    TestFreq = 2
    SaveFreq = 2
    MaxFailures = 0
PROPERTY AlwaysEnds
