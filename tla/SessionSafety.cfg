CONSTANTS
    CliCount = 2
    SrvCount = 2
    SendPack = 100
    RecvPack = 40
    SendCalcRounds = 2
    RecvCalcRounds = 3
    ReadyCopies = 2
    Batches <- OneBatch
    CliLimit = 1
    SrvLimit = 1
    CliTimed = FALSE
    SrvTimed = FALSE
    Arrivals <- AllOrNone
    MayGiveUp = TRUE
    DataCap = 80
    TouchCap = 2
    CountCap = 300
    MaxLoss = 1
    MaxFaults = 1
SPECIFICATION Spec
INVARIANTS
    TypeOK
    PairingInjective
    PeerAgreement
    StartBarrier
    SendsToReceiver
    MonitorSound
PROPERTIES
    ReportsGrow
    ImplementsRendezvous
CHECK_DEADLOCK FALSE
