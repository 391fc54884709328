SPECIFICATION Spec
CONSTANTS
    a1 = a1
    r1 = r1
    s1 = s1
    New = new
    NoInst = NoInst
    NPlans = 2
    NTitles = 4
    InTopic <- MCInTopic
    Agents <- MCAgents
    PlanOf <- MCPlanOf
    TitleOf <- MCTitleOf
    Reviewers <- MCReviewers
    ImportRow = FALSE
    MaxMoves = 3
    MaxChanges = 2
INVARIANTS
    TypeOK
    AgentsReachable
PROPERTIES
    SelectionStays
