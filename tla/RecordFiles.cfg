CONSTANTS
  Requests <- MCRequests
  View <- MCView
  EndPoints <- Anywhere
  MaxEnds = 2
  NoRequest = NoRequest
SPECIFICATION EndsSpec
INVARIANT NothingAckedIsLost
INVARIANT EffectsOnce
INVARIANT RestartChangesNothing
INVARIANT WholeUnlessTorn
PROPERTY LedgerUnlessTorn
\* The requests run out, and a file that is torn keeps a game from loading.
CHECK_DEADLOCK FALSE
