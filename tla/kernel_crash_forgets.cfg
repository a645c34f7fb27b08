SPECIFICATION Spec
CONSTANTS
  a = a
  b = b
  c = c
  Task = {a, b, c}
  Intents <- AllShapes
  Outcomes = {"ok", "error"}
  MaxRetries = 1
  MaxWorkers = 2
  Limit = 64
  ApiCalls = {}
  ApiThread = FALSE
  MaxCrash = 1
  MaxGrants = 0
INVARIANT NoTaskForgotten
