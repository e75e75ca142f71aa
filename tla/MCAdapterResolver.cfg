CONSTANTS
  p = p
  q = q
  r = r
  a = a
  b = b
  Request = {p, q, r}
  Source = {s}
  Config = {a, b}
  Serves <- MCServes
  Brings <- MCBrings
  None = None
  Workers = 2
  MaxStarts = 5
SPECIFICATION FairSpec
INVARIANTS
  MirrorsUnlessRaced
PROPERTIES
  RequestsEnd
CHECK_DEADLOCK FALSE
