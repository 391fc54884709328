SPECIFICATION Spec
CONSTANTS
    TaskNumbers = {1, 2}
    Plan <- MCTwoWaves
    NoOrch = NoOrch
    NoView = NoView
    AutoAdvance = {FALSE, TRUE}
    StaleTicks = TRUE
    Manual = TRUE
    Interruptions = FALSE
    MaxStarts = 1
    MaxRetries = 1
    MaxFaults = 1
    MaxActs = 2
    MaxRestarts = 0
INVARIANTS
    LatchIsAnswerable
    OneInstancePerTask
PROPERTIES
    DeclineSendsNothing
