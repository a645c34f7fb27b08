SPECIFICATION Spec
CONSTANTS
  Client = {r1}
  WaitForApproval = TRUE
  EarlyCalls = FALSE
  MayStall = FALSE
  Content = {A, B}
PROPERTY StaleNeverReady
CHECK_DEADLOCK FALSE
