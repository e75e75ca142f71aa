SPECIFICATION FairSpec
CONSTANTS
  User = {u1}
  Conn = {c1, c2}
  UserOf <- OneUser
  Entity = {e1}
  Reaper = Reaper
  Author = Author
  None = None
  Ops = {"leave", "cursor", "update", "idle"}
  MaxSessions = 2
  Buffer = 1
  MaxRooms = 1
  MaxJoins = 1
CHECK_DEADLOCK FALSE
PROPERTIES
  GhostsLeave
