SPECIFICATION FairSpec
CONSTANTS
  e1 = e1
  e2 = e2
  a = a
  b = b
  Timer = {e1, e2}
  Proc = {a, b}
  User <- MCUser
  NULL = NULL
  ClockSize = 8
  Boot = 6
  MaxTime = 2
  Interval = {1, 2}
  Diff = {1}
  NumEvents = 2
  MaxOthers = 1
  Liberties = {}
INVARIANTS NoMissedTimer ExpiredIsPrompt ListSound
PROPERTY ServiceSpec ExpiredIsPosted
CHECK_DEADLOCK FALSE
