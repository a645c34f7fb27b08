SPECIFICATION Spec
CONSTANTS
  Client = {r1, r2, r3}
  WaitForApproval = TRUE
  EarlyCalls = FALSE
  MayStall = FALSE
  Content = {A, B}
SYMMETRY Symmetry
CONSTRAINT ThreeIfUnedited
INVARIANTS
  TypeOK
  CancelWins
  ReadyIsVetted
  OfferedIsThere
  CancelDiscards
PROPERTIES
  SuccessOnlyWithdrawn
  ImplementsTaskLife
CHECK_DEADLOCK FALSE
