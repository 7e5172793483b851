CONSTANTS
    CliCount = 1
    SrvCount = 1
    SendPack = 100
    RecvPack = 40
    SendCalcRounds = 2
    RecvCalcRounds = 3
    ReadyCopies = 1
    Batches <- OneBatch
    CliLimit <- Unlimited
    SrvLimit <- Unlimited
    CliTimed = TRUE
    SrvTimed = TRUE
    Arrivals <- SomeArrive
    MayGiveUp = FALSE
    DataCap = 80
    TouchCap = 2
    CountCap = 300
    MaxLoss = 0
    MaxFaults = 0
SPECIFICATION FairSpec
PROPERTIES
    ServerEnds
CHECK_DEADLOCK FALSE
