SPECIFICATION FairMutexSpec
CONSTANTS
  Proc = {a, b, c}
  NULL = NULL
  NumEvents = 3
INVARIANTS MutualExclusion NoLostWakeup
PROPERTY FreeIsTaken
