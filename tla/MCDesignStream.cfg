CONSTANTS
  a = a
  b = b
  t1 = t1
  t2 = t2
  Stream = {a, b}
  Schema <- MCSchema
  Followed <- MCFollowed
  MaxSize = 2
  Template = {t1, t2}
  Deployed <- MCDeployed
  Name = {good, bad}
  Invalid = {bad}
  None = None
  MaxFaults = 1
SPECIFICATION FairSpec
INVARIANTS
  TypeOK
  TablesClustered
  LevelsFollowReferences
  DesignedUnderOneTemplate
PROPERTIES
  CoherentUnlessDisturbed
  WrittenInPlanOrder
  RetriesFinish
CHECK_DEADLOCK FALSE
