SPECIFICATION FairSpec
CONSTANTS
  NumCalls = 2
  MaxGates = 2
  MaxTrouble = 2
  Failures = {"failed"}
  Applications <- MCApplications
INVARIANTS  ContextAllOrNothing
PROPERTIES OpenSettlesResults BatchEnds
CHECK_DEADLOCK FALSE
