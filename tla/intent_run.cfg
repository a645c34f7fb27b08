SPECIFICATION SpecRun
CONSTANTS
  Name <- ActionName
  Intents <- AllIntents
  MaxHeal = 3
  MaxTree = 6
INVARIANTS
  DecidesRunnable
  SuccessIsEarned
PROPERTY VerifiedStaysPut
CHECK_DEADLOCK FALSE
