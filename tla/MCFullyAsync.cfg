SPECIFICATION Spec
CONSTANTS
    Required = 1
    Trigger = 2
    Extra = 2
    MaxTasks = 2
    Total = 7
    TestFreq = 2
    SaveFreq = 2
    MaxFailures = 1
INVARIANTS
    TypeOK
    QueueAge
    TrainedAllAtEnd
    EndsSaved
PROPERTIES
    StreamKept
    TrainingEnds
