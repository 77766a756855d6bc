CONSTANTS
  Pages = {p1}
  MaxOpened = 2
  MaxRevision = 2
  MaxSpoken = 1
  NoCursor = NoCursor
  NoView = NoView
SPECIFICATION FairSpec
INVARIANT SleepersAreCurrent
INVARIANT NothingIsRefused
PROPERTY PagesFollowTheGame
PROPERTY PagesCatchUp
\* The game ends with every page up to date.
CHECK_DEADLOCK FALSE
