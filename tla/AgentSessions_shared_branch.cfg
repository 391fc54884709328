SPECIFICATION Spec
CONSTANTS
    t1 = t1
    r1 = r1
    m1 = m1
    o1 = o1
    Tasks     <- MCTasks
    Reviewers <- MCReviewers
    Planners  <- MCPlanners
    Adhoc     <- MCAdhoc
    Branches  <- MCBranches
    Plan = plan
    Main = main
    NoInst = NoInst
    Nothing = Nothing
    MaxSpawns = 2
    MaxActs = 2
    MaxWork = 1
    MaxFaults = 0
    MaxRestarts = 1
CHECK_DEADLOCK FALSE
PROPERTIES
    SharedBranchSurvivesKill
