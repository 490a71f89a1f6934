CONSTANTS
  q1 = q1
  q2 = q2
  q3 = q3
  yes = yes
  no = no
  Question = {q1, q2, q3}
  Option = {yes, no}
  NoSelection = NoSelection
  CorrectAnswer <- MCCorrectAnswer
  Quizzes <- MCQuizzes
  MaxElapsed = 3
SPECIFICATION Spec
PROPERTY ElseBranchHasMoreQuestions
CHECK_DEADLOCK FALSE
