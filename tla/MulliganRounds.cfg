CONSTANTS
  N = 4
  OpeningHand = 3
  Free = 1
  Careless <- MCCareless
  MaxTaken = 4
  MaxRestarts = 2
  NoAnswer = NoAnswer
  NoDecision = NoDecision
SPECIFICATION FairSpec
INVARIANT LiveTokens
INVARIANT RoundsAgree
PROPERTY AnswersStand
PROPERTY GameStarts
\* The game starts, or an answer that does not fit blocks it.
CHECK_DEADLOCK FALSE
