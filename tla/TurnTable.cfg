SPECIFICATION RoundFairSpec
CONSTANTS
  N = 3
  AutoPass = FALSE
  Concessions = TRUE
  MaxEvents = 2
INVARIANT DepartedIsGone
INVARIANT SomebodyIsAsked
INVARIANT LastStanding
PROPERTY NormalTurnsRotate
PROPERTY EverybodyWasHeard
PROPERTY EngineStops
PROPERTY EverySeatHasItsTurn
