SPECIFICATION FairSpec
CONSTANTS
  Client = {r1, r2}
  WaitForApproval = TRUE
  EarlyCalls = TRUE
  MayStall = TRUE
  Content = {A}
PROPERTIES
  TokenStopsWork
  RequestsEnd
CHECK_DEADLOCK FALSE
