SPECIFICATION StepSpec
CONSTANTS
    Prompts = 2
    BatchSize = 2
    RolloutN = 2
    Workers = 1
    DpSize = 1
    Shuffles = {FALSE}
    Estimators = {"grpo"}
    Balances = {FALSE}
    Outcomes <- TwoOutcomes
    FitEpochs = 1
INVARIANT PairSharesGroup
CHECK_DEADLOCK FALSE
