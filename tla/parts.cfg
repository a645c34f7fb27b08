\* A module and its test; two versions that parse, one with a syntax error and
\* one on which the parser fails otherwise. A file of the workspace, and one
\* outside it; three texts, with two kinds of line ends.
SPECIFICATION SpecParts
CONSTANTS
  Asked <- AllRoles
  LoopIters = 2
  LoopHeals = 2
  Capacity = 2
  MaxOutput = 4
  Polls = 3
  Py = {"impl", "test"}
  TestFile = {"test"}
  Good = {"v1", "v2"}
  SyntaxBad = {"broken"}
  Fatal = {"null"}
  NoFile = "absent"
  File = {"inside", "outside"}
  Outside = {"outside"}
  MaxText = 3
  Impl <- ThreeFiles
  Suites <- TwoSuites
  Window = 8
  MaxIters = 24
  MaxHeal = 2
  MaxFails = 1
  Points <- SomePoints
  MaxRewrites = 6
INVARIANTS
  RolesAreKept
  BudgetIsKept
  CancelIsHeeded
  GraphAgrees
  VerdictIsOfWholeRun
  ChoiceIsSound
  CodingIsExplained
  SearchConverges
PROPERTIES
  LoopEnds
  LoudSuiteHasNoVerdict
  RunEnds
  WritesAreSafe
  CodingIsKept
  SearchIsSound
CHECK_DEADLOCK FALSE
