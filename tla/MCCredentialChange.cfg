CONSTANTS
  ann = ann
  bob = bob
  a1 = a1
  b1 = b1
  NoOne = NoOne
  Asked = Asked
  NoToken = NoToken
  User = {ann, bob}
  Write = {a1, b1}
  Author <- MCAuthor
  MaxChanges = 2
  MaxCloses = 1
SPECIFICATION Spec
INVARIANTS
  OpenAsItsUser
  StoredUnderAuthor
  ResumesOnlyAsStarting
PROPERTY CatchesUp
CHECK_DEADLOCK FALSE
