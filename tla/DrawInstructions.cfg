SPECIFICATION FairSpec
CONSTANTS
  A = A
  B = B
  C = C
  a1 = a1
  a2 = a2
  a3 = a3
  b1 = b1
  b2 = b2
  b3 = b3
  b4 = b4
  c1 = c1
  c2 = c2
  d1 = d1
  d2 = d2
  d3 = d3
  d4 = d4
  NoCard = NoCard
  Players <- MCPlayers
  Cards <- MCCards
  Owner <- MCOwner
  Mill <- MCMill
  Doublers <- MCDoublers
  Limit <- MCLimit
  Reveals <- MCReveals
  Start <- MCStart
  Programs <- MCPrograms
INVARIANT ResultDrawsFirst
PROPERTY FirstDrawIsOffered
PROPERTY EveryDrawCounts
PROPERTY InstructionsEnd
