SPECIFICATION Spec
CONSTANTS
  MaxGens = 2
  Failures <- TransportFailures
PROPERTIES
  ImplementsLifecycle
  FailureCloses
  FarewellCloses
  ProcessingEnds
