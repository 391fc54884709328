SPECIFICATION FairSpec
CONSTANTS
    NoView = NoView
    MaxActs = 2
    MaxWork = 1
INVARIANTS
    TypeOK
    FinishedIsOwed
PROPERTIES
    EndsAreAsked
