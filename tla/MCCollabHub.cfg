SPECIFICATION Spec
CONSTANTS
  User = {u1, u2}
  Conn = {c1, c2}
  UserOf <- OneTabEach
  Entity = {e1}
  Reaper = Reaper
  Author = Author
  None = None
  Ops = {"acquire", "release", "expire"}
  MaxSessions = 1
  Buffer = 2
  MaxRooms = 1
  MaxJoins = 2
SYMMETRY Renamings
CHECK_DEADLOCK FALSE
INVARIANTS
  TypeOK
  LocksHeldByMembers
  ViewConverges
