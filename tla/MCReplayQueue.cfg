SPECIFICATION Spec
CONSTANTS
    Steps = 2
    TestFreq = 2
    ValBatches = 1
    BatchSize = 1
    ValBatchSize = 2
    Rollouts = 2
    ValRollouts = 1
    BatchMultiple = 2
    MaxOutputs = 1
    MaxFailures = 1
INVARIANTS
    TypeOK
    BatchWhole
PROPERTY TrainingStops
