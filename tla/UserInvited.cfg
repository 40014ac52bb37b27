SPECIFICATION Spec
CONSTANTS
  Workers = {w1, w2}
  Emails = {ana, bob}
  OldFile = {2}
  MaxUsers = 2
  MaxSetups = 1
  MaxFaults = 1
SYMMETRY WorkerSymmetry
INVARIANT NewUsersGetLink
CHECK_DEADLOCK FALSE
