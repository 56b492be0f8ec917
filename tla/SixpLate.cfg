SPECIFICATION Spec
CONSTANTS
  Node = {a, b}
  NULL = NULL
  SIXTOP_MAX_TRANSACTIONS = 1
  SeqnoMax = 6
  QueueSize = 2
  Initiator = {a, b}
  Command = {"ADD"}
  MaxRequests = 5
  MaxResets = 0
INVARIANTS NoLateAnswer
CHECK_DEADLOCK FALSE
