SPECIFICATION Spec
CONSTANTS
    Steps = 1
    TestFreq = 1
    ValBatches = 2
    BatchSize = 1
    ValBatchSize = 1
    Rollouts = 1
    ValRollouts = 1
    BatchMultiple = 1
    MaxOutputs = 1
    MaxFailures = 0
INVARIANT SampledIsStored
