SPECIFICATION Spec
CONSTANTS
  Timer = {c1, c2}
  Proc = {ctimer}
  NULL = NULL
  Delay <- MCDelay
  NumEvents = 2
  Interval = {1, 2}
  MaxTime = 4
  Liberties = {"set_queued"}
PROPERTY NotEarly
CHECK_DEADLOCK FALSE
