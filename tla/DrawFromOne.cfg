SPECIFICATION Spec
CONSTANTS
    Subjects = {"generator"}
    Aims = {0, 1, 2, 33, 50, 99, 100}
    Rounds = {0, 1, 2, 7, 8}
    Times = {0, 1, 2, 3, 10, 41, 200}
    Idles = {0, 1, 2, 7, 50}
    Periods = {0, 1, 3, 10, 50}
    PerRound = 100
    Full = 100
    Bits = 2
    MulZ = 12
    MulW = 14
    Seeds <- SomeSeeds
    Bounds = {3, 100}
    MaxWords = 3
    LoopCount = 3
    Columns = 4
    RoundTime = 3
    Page = 64
    Elem = 8
    WordSize = 256
    Sysfs <- SomeSysfs
    Sizes = {0, 1, 100, 192, 224, 255, 256, 1000}
    Counts = {1, 2, 3, 7}
    Blocks = {0, 128}
    InformSize = 15
INVARIANT DrawAsSaid
CHECK_DEADLOCK FALSE
