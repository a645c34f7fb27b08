SPECIFICATION Spec
CONSTANTS
  Client = {r1, r2}
  WaitForApproval = TRUE
  EarlyCalls = FALSE
  MayStall = FALSE
  Content = {A}
INVARIANT RejectDiscards
CHECK_DEADLOCK FALSE
