CONSTANTS
  NodeId = {"n1", "n2", "n3"}
  EdgeId = {"e1", "e2"}
  PropertyId = {"p1", "p2", "p3"}
  ConstraintId = {"c1"}
  IndexId = {"i1"}
  MappingId = {"om1", "om2", "lm1"}
  Label = {"A", "B", "C"}
  Text = {"", "none", "A", "B", "C", "R", "S", "d", "x", "y", "z"}
  Table = {"t1", "t2"}
  Commands <- MCCommandSet
  FirstOntology <- MCOntology
  MaxCommands = 4
SPECIFICATION EditorSpec
VIEW View
INVARIANTS
  IdsStayUnique
  UndoRestores
  CascadesAreComplete
  MirrorAgrees
  
CHECK_DEADLOCK FALSE
