SPECIFICATION FairSpec
CONSTANTS
  a = a
  b = b
  c = c
  Task = {a, b, c}
  Intents <- AllShapes
  Outcomes = {"ok", "bad", "vbad", "await", "error", "cancelled"}
  MaxRetries = 2
  MaxWorkers = 2
  Limit = 12
  ApiCalls = {}
  ApiThread = FALSE
  MaxCrash = 0
  MaxGrants = 0
INVARIANTS
  RunIsOver
PROPERTIES
  BlockedIsReleased
  TokenSettles
