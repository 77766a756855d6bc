SPECIFICATION Spec
CONSTANTS
  a1 = a1  t = t  b = b  c = c  w = w
  None = None
  N = 3
  Creatures <- MCCreatures
  Tokens <- MCTokens
  Owner <- MCOwner
  Walkers <- MCWalkers
  Protector <- MCProtector
  Trample <- MCTrample
  Printed <- MCPrinted
  MaxEvents = 2
INVARIANT RolesAgree
INVARIANT SnapshotCloses
INVARIANT DamageGoesWhereItMay
PROPERTY StrikesOnce
PROPERTY DefendersInTurn
\* A game that is over does not go on.
CHECK_DEADLOCK FALSE
