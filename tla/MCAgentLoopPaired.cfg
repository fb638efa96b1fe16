SPECIFICATION ASpec
CONSTANTS
    MaxIterations = 1
    StallRounds = 2
    RepeatRounds = 1
    ExhaustAfter = 1
    UnservedMax = 1
CHECK_DEADLOCK FALSE
INVARIANTS
    TurnsLeftPaired
