SPECIFICATION Spec
CONSTANTS
    Instances = {i1}
    Words = 2
    Granu = 2
    Calibration = 2
    Full = 2
    Tasks <- LimitedTasks
    Durations = {1, 2}
    Names = {n1}
    MaxFaults = 0
INVARIANT FileStaysInSize
