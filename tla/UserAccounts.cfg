SPECIFICATION Spec
CONSTANTS
  Workers = {w1, w2}
  Emails = {ana, bob}
  OldFile = {2}
  MaxUsers = 2
  MaxSetups = 1
  MaxFaults = 1
SYMMETRY WorkerSymmetry
INVARIANT TypeOK
INVARIANT ActiveIsVerified
INVARIANT ReadyIsActive
PROPERTY FormKeptUntilUsed
CHECK_DEADLOCK FALSE
