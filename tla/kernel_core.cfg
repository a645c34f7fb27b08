SPECIFICATION Spec
CONSTANTS
  a = a
  b = b
  c = c
  Task = {a, b, c}
  Intents <- CoreShapes
  Outcomes = {"ok", "bad", "vbad", "await", "error", "blank", "cancelled"}
  MaxRetries = 1
  MaxWorkers = 2
  Limit = 3
  ApiCalls = {"cancel", "approve"}
  ApiThread = FALSE
  MaxCrash = 1
  MaxGrants = 1
INVARIANTS
  TypeOK
  DependenciesDone
  StartBudget
PROPERTIES
  RowsFollowLegal
  CancelledNeverCompletes
  ImplementsTaskGraph
