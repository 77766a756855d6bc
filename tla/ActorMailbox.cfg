\* Two senders in front of a mailbox of one: overtaking, failure, close, and a
\* request that another game declines as well.
CONSTANTS
  c1 = c1  c2 = c2
  p1 = p1  p2 = p2
  k1 = k1  k2 = k2
  b1 = b1  b2 = b2
  Callers <- MCCallers
  Principals <- MCOnePrincipal
  CommandIds <- MCCommandIds
  Bodies <- MCBodies
  Envelopes <- MCStrangers
  Misdirected <- MCOne
  QueueLimit = 1
  MaxRevision = 1
  MaxFaults = 1
  NoRecord = NoRecord
  NoMessage = NoMessage
SPECIFICATION FairSpec
INVARIANTS SeenIsDurable
PROPERTIES MailboxIsServed CloseStops
\* A game that nobody plays may stop.
CHECK_DEADLOCK FALSE
