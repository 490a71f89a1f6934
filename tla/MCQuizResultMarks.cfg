CONSTANTS
  q1 = q1
  q2 = q2
  yes = yes
  no = no
  me = me
  ann = ann
  bob = bob
  cid = cid
  phone = phone
  tablet = tablet
  annsPhone = annsPhone
  bobsPhone = bobsPhone
  cidsPhone = cidsPhone
  Question = {q1, q2}
  Option = {yes, no}
  CorrectAnswer <- MCCorrectAnswer
  Fan = {me, ann, bob, cid}
  Device = {phone, tablet, annsPhone, bobsPhone, cidsPhone}
  Account <- MCAccount
  Viewer = phone
  Sheets <- MCSheets
  Uuid = {1, 2, 3, 4}
  ReadsFail = FALSE
SPECIFICATION Spec
INVARIANT MarksNumberedAsInQuiz
