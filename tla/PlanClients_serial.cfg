CONSTANTS
    p = p
    q = q
    Names = {p, q}
    Topics = {"t"}
    Goroutines = {g}
    Commands = {}
    NoPlan = NoPlan
    NoFile = NoFile
    NoView = NoView
    None = None
    InitialPlans <- MCAnyPlan
    Serial = TRUE
    Overrides = FALSE
    MaxOps = 3
    MaxFaults = 0
SPECIFICATION Spec
INVARIANTS
    TypeOK
    CacheFresh
    PlannerTextIngested
    FileFollowsRow
    TopicsListed
PROPERTIES
    ImplementsLifecycle
    AnnouncedStatusStored
