CONSTANTS
  MAX_BUFFER_SIZE = 2
  Cases <- MCCases
SPECIFICATION Spec
INVARIANTS
  AnswerIsExact
  PlanIsComplete
  QueriesAreAnswered
CHECK_DEADLOCK FALSE
