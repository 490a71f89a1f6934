CONSTANTS
  one = one
  two = two
  Text = {one, two}
  Unset = Unset
  Empty = Empty
SPECIFICATION SheetSpec
INVARIANTS
  CreatedIsComplete
  QuestionAsShown
CHECK_DEADLOCK FALSE
