SPECIFICATION Spec
CONSTANTS
    Instances = {i1, i2}
    Words = 2
    Granu = 2
    Calibration = 2
    Full = 2
    Tasks <- LimitedTasks
    Durations = {1, 2}
    Names = {n1, n2}
    MaxFaults = 2
INVARIANTS
    NoRawBlock
    FileAsCounted
    LimitsHold
PROPERTY Stops
