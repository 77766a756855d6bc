SPECIFICATION Spec
CONSTANTS
  N = 4
  AutoPass = FALSE
  Concessions = TRUE
  MaxEvents = 0
INVARIANT NoDuplicatePass
