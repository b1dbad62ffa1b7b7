CONSTANTS
    Seg <- MCSeg
    Files <- OneFile
    StatsOn <- BothStats
    MaxPeriods <- MCMaxPeriods
SPECIFICATION Spec
INVARIANT SampleEveryPeriod
CHECK_DEADLOCK FALSE
