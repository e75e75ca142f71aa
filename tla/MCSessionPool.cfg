CONSTANTS
  a = a
  b = b
  c1 = c1
  c2 = c2
  c3 = c3
  q1 = q1
  w1 = w1
  w2 = w2
  NoWorkspace = NoWorkspace
  Nil = Nil
  Nobody = Nobody
  Conns = {c1, c2, c3}
  Replicas = {a, b}
  Requests = {q1}
  Workspaces = {w1, w2}
  DefaultWorkspace = w1
  Home <- MCHome
  MaxFaults = 1
SPECIFICATION FairSpec
INVARIANTS
  TypeOK
  StatementsRunInScope
  OneSweeper
PROPERTIES
  LockFreed
  WaitsEnd
CHECK_DEADLOCK FALSE
