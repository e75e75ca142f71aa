SPECIFICATION Spec
CONSTANTS
  Key = {edit, create}
  Guarded = {edit}
  Call = {c1, c2}
  None = None
  MaxDone = 3
  MaxFaults = 1
SYMMETRY Attempts
CHECK_DEADLOCK FALSE
INVARIANTS
  TypeOK
  AnswersAreTheirs
  ReplaysAgree
  RetriesWriteOnce
  AnsweredIsRecorded
