SPECIFICATION Spec
CONSTANTS
  Reports = {r1, r2}
  MaxFaults = 3
  MaxResets = 1
INVARIANT TypeOK
INVARIANT MissingIsLost
INVARIANT TwoFailuresLoseNothing
INVARIANT ToldAfterSaved
PROPERTY HandlersEnd
CHECK_DEADLOCK FALSE
