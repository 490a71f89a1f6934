CONSTANTS
  named = named
  qa = qa
  Nil = Nil
  Blank = Blank
  Name = {named}
  Question = {qa}
  Launch = {1, 2}
  TypesDuringUpload = FALSE
  RequestsFail = TRUE
  Horizon = 2
  MaxForms = 2
  MaxUploads = 2
  MaxFetches = 2
SPECIFICATION Spec
INVARIANTS
  PublishedIsComplete
  OneQuizPerForm
  LoaderHasItsDelete
PROPERTIES
  UploadIsAnswered
  DeletedLeavesList
