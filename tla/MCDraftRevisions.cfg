SPECIFICATION Spec
CONSTANTS
  Entity = {n1}
  ScalarAxis = {label}
  ConstraintAxis = {}
  PropertyId = {}
  Name = {}
  Value = {v1}
  Absent = Absent
  None = None
  Draft = {d1}
  Request = {q1, q2}
  Ops = {"design", "edit", "refine", "reconcile", "extend", "reanalyze", "touch", "restore"}
  MaxRevision = 4
  MaxVersion = 0
SYMMETRY Symmetry
CHECK_DEADLOCK FALSE
INVARIANTS
  TypeOK
  SnapshotFaithful
  StatusMatchesOntology
PROPERTIES
  WritesBuildOnCurrent
