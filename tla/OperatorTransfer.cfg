SPECIFICATION Spec
CONSTANT Failures <- EverythingFails
INVARIANTS
  TypeOK
  CallbackIsJustified
PROPERTIES
  ServedCallersStayServed
  ImplementsTransfer
  HoldEnds
