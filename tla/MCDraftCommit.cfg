SPECIFICATION Spec
CONSTANTS
  Entity = {n1}
  ScalarAxis = {label}
  ConstraintAxis = {}
  PropertyId = {}
  Name = {}
  Value = {v1}
  Absent = Absent
  None = None
  Draft = {d1}
  Request = {q1, q2}
  Ops = {"design", "complete", "rebase", "canonicalEdit", "canonicalCreate"}
  MaxRevision = 3
  MaxVersion = 3
SYMMETRY Symmetry
CHECK_DEADLOCK FALSE
INVARIANTS
  CompletedIsCommitted
  LinearHistory
PROPERTIES
  CommitsAreAtomic
