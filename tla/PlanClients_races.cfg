CONSTANTS
    p = p
    q = q
    Names = {p, q}
    Topics = {"t"}
    Goroutines = {g}
    Commands = {c}
    NoPlan = NoPlan
    NoFile = NoFile
    NoView = NoView
    None = None
    InitialPlans <- MCReady
    Serial = FALSE
    Overrides = TRUE
    MaxOps = 2
    MaxFaults = 1
SPECIFICATION FairSpec
PROPERTIES
    CacheConverges
