SPECIFICATION FairSpec
CONSTANTS
  Runs = {r1, r2}
  Inputs = {u1, u2}
  Proposals = {p1}
  Answers = {a1, a2, a3, a4}
  Messages <- AllMessages
  Calls = {c1, c2}
  Attempts = {1, 2, 3, 4, 5, 6}
  ContextKeys = {}
  Configs = {g1}
  Invocations = {}
  None = None
  MaxModelAttemptsPerRun = 2
  MaxToolCallsPerRun = 1
  MaxTokensPerRun = 0
  MaxTries = 1
  Usage = {0}
  Batches = {0, 1}
  ParallelSafe = FALSE
  Shared = FALSE
  ReclassifyTo = {"normal", "steer", "held"}
  MaxFaults = 0
  MaxCrashes = 0
  MaxUpdates = 1
CHECK_DEADLOCK FALSE
INVARIANT InputKept
PROPERTY RunsEnd
