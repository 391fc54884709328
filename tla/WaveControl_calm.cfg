SPECIFICATION Spec
CONSTANTS
    TaskNumbers = {1, 2, 3}
    Plan <- MCWideWave
    NoOrch = NoOrch
    NoView = NoView
    AutoAdvance = {FALSE, TRUE}
    StaleTicks = FALSE
    Manual = FALSE
    Interruptions = TRUE
    MaxStarts = 1
    MaxRetries = 1
    MaxFaults = 2
    MaxActs = 0
    MaxRestarts = 1
INVARIANTS
    TypeOK
    NoAgentBehindItsTask
    FinishedIsForgotten
    NoOrphanAgents
    WavesInOrder
PROPERTIES
    ReviewerFollowsCoders
