CONSTANTS
    Seg <- MCSeg
    Files <- MCFiles
    StatsOn <- BothStats
    MaxPeriods <- MCMaxPeriods
SPECIFICATION Spec
INVARIANT TypeOK
PROPERTY ImplementsFileStream
PROPERTY WrittenIsRead
PROPERTY TransferReturns
CHECK_DEADLOCK FALSE
