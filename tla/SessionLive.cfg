CONSTANTS
    CliCount = 2
    SrvCount = 2
    SendPack = 120
    RecvPack = 120
    SendCalcRounds = 1
    RecvCalcRounds = 1
    ReadyCopies = 1
    Batches <- OneBatch
    CliLimit <- Unlimited
    SrvLimit <- Unlimited
    CliTimed = TRUE
    SrvTimed = FALSE
    Arrivals <- SomeArrive
    MayGiveUp = TRUE
    DataCap = 120
    TouchCap = 1
    CountCap = 120
    MaxLoss = 1
    MaxFaults = 1
SPECIFICATION FairSpec
PROPERTIES
    AllInstancesStart
    ClientThreadsReturn
    ClientEnds
CHECK_DEADLOCK FALSE
