SPECIFICATION Spec
CONSTANTS
    NumSessions = 2
    PageLimit = 1
    Keys = {k1, k2}
    Times <- MCTimes
    MaxRevision = 3
    MaxWrites = 3
    MaxEpoch = 2
    MaxTrouble = 2
INVARIANTS AlwaysReadable WalkComplete
PROPERTIES AnswersTrue DurableLogSpec
CHECK_DEADLOCK FALSE
SYMMETRY KeySymmetry
