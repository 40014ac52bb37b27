SPECIFICATION Spec
CONSTANTS
  MaxGens = 3
  Failures <- NothingFails
INVARIANT CleanupLeavesNothingRunning
