CONSTANTS
  quizzes = quizzes
  locked = locked
  Read = {1, 2, 3}
  Query = {quizzes, locked}
  QueryOf <- MCQueryOf
  Rejected = {locked}
  MaxFaults = 2
SPECIFICATION Spec
INVARIANTS
  AssertionsHold
  AnswersAreFresh
PROPERTIES
  EveryGetIsAnswered
  KeepsThePromise
CHECK_DEADLOCK FALSE
