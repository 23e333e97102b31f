SPECIFICATION FairSpec
CONSTANTS
  Programs = {a, b}
  Tables = 6
  MaxFaults = 3
INVARIANTS
  VersionEarned
  ReadyHasTables
PROPERTIES
  OpensAtLast
CHECK_DEADLOCK FALSE
