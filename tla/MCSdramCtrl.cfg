SPECIFICATION FairSpec
CONSTANTS
  NCLI = 2
  Writers = {0}
  Rows = 2
  Cols = 3
  Asked <- MCAsked
  Refresh = 41
  Chunk = 2
  Gap = 2
  Lengths = {4}
INVARIANTS DeviceRules AckedOwn BurstInOrder RefreshOnTime BoundedOvertaking
PROPERTIES EveryoneServed
