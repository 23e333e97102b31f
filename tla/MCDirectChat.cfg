SPECIFICATION Spec
CONSTANTS
  Peers = {2, 3}
  ForeignIds = {1}
  Troubles = {"disconnect", "failure", "other room"}
  QueueCap = 2
  MaxSent = 3
  MaxMoves = 4
INVARIANTS
  ShownInOrder
CHECK_DEADLOCK FALSE
