SPECIFICATION Spec
CONSTANTS
  N = 3
  AutoPass = FALSE
  Concessions = TRUE
  MaxEvents = 0
INVARIANT DepartedTurnGoesOn
