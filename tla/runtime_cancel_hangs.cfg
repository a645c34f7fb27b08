SPECIFICATION FairSpec
CONSTANTS
  Client = {r1}
  WaitForApproval = TRUE
  EarlyCalls = FALSE
  MayStall = FALSE
  Content = {A}
PROPERTY CancelSettles
CHECK_DEADLOCK FALSE
