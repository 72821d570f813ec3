SPECIFICATION FairSpec
CONSTANTS
  MaxComponents = 2
  MaxOccurrences = 3
  MaxTrouble = 2
  Failures = {"failed"}
INVARIANT OpenContextOnce
PROPERTIES OpenSettlesLifecycle OpeningsAndClosesEnd
CHECK_DEADLOCK FALSE
