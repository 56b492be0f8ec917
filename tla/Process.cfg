SPECIFICATION FairSpec
CONSTANTS
  Proc = {p, q}
  NULL = NULL
  NumEvents = 2
  MaxStack = 9
  MaxOps = 1
  Liberties = {}
INVARIANTS
  CurrentIsExecuting
  OneActivation
  ListedIsRunning
  NoLostPoll
  BroadcastExact
PROPERTIES
  FifoSpec
  PollDelivered
  EventTaken
