SPECIFICATION Spec
CONSTANTS
    i1 = i1
    i2 = i2
    i3 = i3
    p1 = p1
    p2 = p2
    None = None
    NoKey = NoKey
    InstSeq <- MCInstSeq
    Plans <- MCPlans
    PlanOf <- MCPlanOf
    Running <- MCRunning
    Keys = {k1}
    OpenCode = {i1, i2}
    AutoYes = {}
    MaxAsks = 0
    MaxWork = 3
INVARIANTS
    TypeOK
    ActsOnWhatWasShown
