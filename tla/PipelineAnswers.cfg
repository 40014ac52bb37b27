SPECIFICATION Spec
CONSTANTS
  MaxGens = 2
  Failures <- AnswerFailures
INVARIANTS
  TypeOK
  OneActiveGeneration
  AnswersFollowTheirQuestion
  InterruptedStaysInterrupted
  AnswersPersisted
  AnswerIsOnItsWay
