CONSTANTS
    TaskNumbers = {1, 2, 3, 4}
    Plans <- MCAllPlans
SPECIFICATION Spec
INVARIANTS
    TypeOK
    OverMeansResolved
    RunningOnlyInCurrentWave
    RunningWaveHasWork
    LatchBelongsToWave
    Barrier
PROPERTIES
    AdvanceOnlyWhenResolved
    ImplementsBarrier
