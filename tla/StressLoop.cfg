SPECIFICATION Spec
CONSTANTS
    PerRound = 1000
    RateBound = 5
    Tasks <- AllTasks
    Costs <- AllCosts
    MaxChanges = 1
INVARIANTS
    TypeOK
    LimitsHold
PROPERTIES
    LoadSettles
    ShortLoadReported
    ReportEnds
    Stops
CHECK_DEADLOCK FALSE
