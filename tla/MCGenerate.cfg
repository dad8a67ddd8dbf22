SPECIFICATION Spec
CONSTANTS
  Registered <- Providers
  Setups <- MCSetups
  AnswerShapes <- MCAnswerShapes
  Failures <- MCFailures
  MaxCalls = 2
  MaxRounds = 1
  MaxRetries = 1
INVARIANTS
  CallsAnsweredOnce
  WorkBounded
  GivenIsWellFormed
  StreamAgrees
PROPERTIES
  GenerationEnds
CHECK_DEADLOCK FALSE
