\* Two seats, one sender: retries, reused identifiers, restarts and
\* failed saves.
CONSTANTS
  c1 = c1  c2 = c2
  p1 = p1  p2 = p2
  k1 = k1  k2 = k2
  b1 = b1  b2 = b2
  Callers <- MCOneCaller
  Principals <- MCPrincipals
  CommandIds <- MCCommandIds
  Bodies <- MCBodies
  Envelopes <- MCRetries
  Misdirected <- MCNone
  QueueLimit = 1
  MaxRevision = 2
  MaxFaults = 2
  NoRecord = NoRecord
  NoMessage = NoMessage
SPECIFICATION Spec
INVARIANTS Loadable ServesOnlyDurableState
PROPERTIES BoundariesHold ImplementsLedger
\* A game that nobody plays may stop.
CHECK_DEADLOCK FALSE
