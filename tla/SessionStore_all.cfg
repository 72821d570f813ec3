SPECIFICATION Spec
CONSTANTS
  Runs = {r1}
  Messages = {m1}
  Calls = {c1}
  Attempts = {x1}
  ContextKeys = {k1}
  Configs = {g1}
  Invocations = {i1}
  None = None
  Keys = {key1, key2}
  Fingerprints = {f1, f2}
  MaxFacts = 4
  MaxQueue = 1
  MaxRev = 3
  MaxVersion = 1
  MaxTokens = 1
SYMMETRY Interchangeable
VIEW AggregateView
CONSTRAINT Apart
 
PROPERTIES RecoverySettles RetrySafe DurableProgress
CHECK_DEADLOCK FALSE
