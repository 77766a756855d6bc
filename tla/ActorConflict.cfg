\* A reused command identifier.
CONSTANTS
  c1 = c1  c2 = c2
  p1 = p1  p2 = p2
  k1 = k1  k2 = k2
  b1 = b1  b2 = b2
  Callers <- MCOneCaller
  Principals <- MCOnePrincipal
  CommandIds <- MCCommandIds
  Bodies <- MCBodies
  Envelopes <- MCConflict
  Misdirected <- MCNone
  QueueLimit = 1
  MaxRevision = 2
  MaxFaults = 0
  NoRecord = NoRecord
  NoMessage = NoMessage
SPECIFICATION Spec
PROPERTIES DeclineKeepsActor
\* A game that nobody plays may stop.
CHECK_DEADLOCK FALSE
