SPECIFICATION Spec
CONSTANTS
  Failures <- EverythingFails
  MaxConversation = 4
  MaxTurns = 4
  MaxRedirects = 1
INVARIANTS
  TypeOK
  Inductive
  AlertedOnce
  ConversationAlternates
  ReportsAreFaithful
  CallbackReportTellsAll
PROPERTIES
  InfoSurvives
