CONSTANTS
  ann = ann
  bob = bob
  a1 = a1
  a2 = a2
  a3 = a3
  b1 = b1
  Handshake = Handshake
  User = {ann, bob}
  Write = {a1, a2, a3, b1}
  Author <- MCAuthor
  Refused = {a2}
  MaxPendingWrites = 2
  MaxFaults = 3
SPECIFICATION Spec
INVARIANTS
  TypeOK
  AnswersComeInOrder
  IdleHasNothingToSend
  CallbacksAreOfTheirWrites
  ToldTheTruth
  LastWriteStands
PROPERTIES
  WritesAreSettled
  KeepsTheLedger
CHECK_DEADLOCK FALSE
