SPECIFICATION Spec
CONSTANTS
  MaxGens = 2
  Failures <- LlmFailures
PROPERTY FailedRetryCloses
