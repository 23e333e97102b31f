SPECIFICATION Spec
CONSTANTS
  c1 = c1
  c2 = c2
  c3 = c3
  Chats <- MCChats
  Later = {c3}
  Crowd <- MCCrowd
  None = None
  Urls = {u1}
  Stuns = {s1, s2}
  Queries = {c2}
  MaxMoves = 2
  MaxWrites = 1
INVARIANTS
  WindowsSettle
  SelectionShown
  SettingsSaved
CHECK_DEADLOCK FALSE
