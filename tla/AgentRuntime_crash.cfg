SPECIFICATION Spec
CONSTANTS
  Runs = {r1}
  Inputs = {u1}
  Proposals = {}
  Answers = {a1, a2, a3}
  Messages <- AllMessages
  Calls = {c1, c2}
  Attempts = {1, 2, 3}
  ContextKeys = {}
  Configs = {g1}
  Invocations = {}
  None = None
  MaxModelAttemptsPerRun = 2
  MaxToolCallsPerRun = 2
  MaxTokensPerRun = 1
  MaxTries = 2
  Usage = {0, 1}
  Batches = {0, 2}
  ParallelSafe = TRUE
  Shared = TRUE
  ReclassifyTo = {}
  MaxFaults = 2
  MaxCrashes = 1
  MaxUpdates = 0
INVARIANTS ToolAtMostOnce   
PROPERTY CancelHonoured
CHECK_DEADLOCK FALSE
