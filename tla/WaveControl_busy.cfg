SPECIFICATION FairSpec
CONSTANTS
    TaskNumbers = {1, 2, 3}
    Plan <- MCWideWave
    NoOrch = NoOrch
    NoView = NoView
    AutoAdvance = {FALSE, TRUE}
    StaleTicks = TRUE
    Manual = FALSE
    Interruptions = FALSE
    MaxStarts = 1
    MaxRetries = 2
    MaxFaults = 2
    MaxActs = 0
    MaxRestarts = 0
PROPERTIES
    ImplementationEnds
    PostponedIsShown
    LostTaskIsNoticed
