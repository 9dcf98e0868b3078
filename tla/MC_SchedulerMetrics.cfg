SPECIFICATION FairMetricsSpec
CONSTANTS
    NUM_TASKS = 3
    period_ms <- Periods
    UINT32 = 32
    MaxBusy = 3
    Monitored = {1, 2}
    DURATION = 12
    Horizon = 20
INVARIANTS
    MissesAreJitter
    TotalsAddUp
    ClocksAgree
    ReportedInTime
PROPERTIES
    Reported
CHECK_DEADLOCK FALSE
