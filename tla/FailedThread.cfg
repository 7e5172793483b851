CONSTANTS
    CliCount = 1
    SrvCount = 1
    SendPack = 100
    RecvPack = 40
    SendCalcRounds = 2
    RecvCalcRounds = 3
    ReadyCopies = 1
    Batches <- OneBatch
    CliLimit = 1
    SrvLimit = 1
    CliTimed = FALSE
    SrvTimed = FALSE
    Arrivals <- SomeArrive
    MayGiveUp = TRUE
    DataCap = 80
    TouchCap = 2
    CountCap = 300
    MaxLoss = 0
    MaxFaults = 1
SPECIFICATION FairSpec
PROPERTIES
    ClientEndsDespiteError
CHECK_DEADLOCK FALSE
