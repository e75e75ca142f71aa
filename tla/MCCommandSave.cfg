CONSTANTS
  t1 = t1
  c1 = c1
  Tabs = {t1}
  Calls = {c1}
  Edits <- MCEdits
  NewLabels = {"X"}
  NewIds <- MCNewIds
  Selections <- MCSelections
  Reviewed = {}
  BaseOntology <- MCBase
  MAX_UNDO_DEPTH = 50
  MaxEdits = 2
  MaxRevision = 3
  MaxRequests = 3
SPECIFICATION Spec
INVARIANTS
  SavedCommandsLeaveStack
CHECK_DEADLOCK FALSE
