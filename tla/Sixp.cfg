SPECIFICATION FairSpec
CONSTANTS
  Node = {a, b}
  NULL = NULL
  SIXTOP_MAX_TRANSACTIONS = 2
  SeqnoMax = 2
  QueueSize = 2
  Initiator = {a, b}
  Command = {"ADD", "ADD_ANY", "CLEAR"}
  MaxRequests = 3
  MaxResets = 1
INVARIANTS OnePerPeer ClearKeepsZero NoDanglingCallback AnswersMatch
PROPERTY TransEnds
CHECK_DEADLOCK FALSE
