CONSTANTS
  t1 = t1
  t2 = t2
  c1 = c1
  c2 = c2
  Tabs = {t1, t2}
  Calls = {c1, c2}
  Edits <- MCEdits
  NewLabels = {"X"}
  NewIds <- MCNewIds
  Selections <- MCSelections
  Reviewed = {"n1"}
  BaseOntology <- MCBase
  MAX_UNDO_DEPTH = 50
  MaxEdits = 2
  MaxRevision = 3
  MaxRequests = 3
SPECIFICATION Spec
SYMMETRY Symmetry
INVARIANTS
  RevisionsReplay
  CacheTracksStack
  
PROPERTIES
  EditsSurvive
CHECK_DEADLOCK FALSE
