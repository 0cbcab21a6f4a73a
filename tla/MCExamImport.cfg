SPECIFICATION ImportSpec
CONSTANTS
  part = part
  exam = exam
  Topics <- Listed
  Requests = {r1, r2}
  Job = Job
  MaxRequests = 2
  MaxEnds = 2
SYMMETRY Symmetry
CHECK_DEADLOCK FALSE
INVARIANTS
  ImportTypeOK
  ListedHasQuestions
  JobImportsOnce
  UpMeansComplete
