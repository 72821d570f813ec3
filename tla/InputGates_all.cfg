SPECIFICATION FairSpec
CONSTANTS
  MaxGates = 2
  MaxSubmissions = 2
  MaxTrouble = 1
INVARIANTS AnswersHold ContextFollowsInput
PROPERTIES OpenSettlesInputs SubmissionsReturn
CHECK_DEADLOCK FALSE
