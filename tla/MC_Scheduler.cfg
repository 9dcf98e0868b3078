SPECIFICATION FairSpec
CONSTANTS
    NUM_TASKS = 4
    period_ms <- Periods
    UINT32 = 16
    MaxBusy = 2
INVARIANTS
    InStep
    NoTaskOverdue
PROPERTIES
    RunsOnTime
    EveryTaskRuns
