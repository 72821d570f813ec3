SPECIFICATION FairSpec
CONSTANTS
  MaxGates = 2
  MaxOccurrences = 4
  MaxSteps = 2
  MaxTrouble = 2
  MaxFollowOns = 1
INVARIANTS AllOrNothing 
PROPERTY RunEnds
