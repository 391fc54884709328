SPECIFICATION Spec
CONSTANTS
    i1 = i1
    i2 = i2
    i3 = i3
    p1 = p1
    p2 = p2
    None = None
    NoKey = NoKey
    InstSeq <- MCFewInsts
    Plans <- MCFewPlans
    PlanOf <- MCFewOf
    Running <- MCFewRun
    Keys = {k1}
    OpenCode = {i1}
    AutoYes = {i1}
    MaxAsks = 2
    MaxWork = 3
INVARIANTS
    AnsweredAsAsked
