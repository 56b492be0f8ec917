SPECIFICATION TFairSpec
CONSTANTS
  k1 = k1
  k2 = k2
  k3 = k3
  k4 = k4
  b = b
  u = u
  v = v
  NULL = NULL
  Elem = {NULL, k1, k2, k3, k4}
  Size = 4
  Packet = {k1, k2, k3, k4}
  Nbr = {b, u, v}
  Broadcast = b
  Linked = {v}
  Dest <- MCDest
  Limit <- MCLimit
  QUEUEBUF_NUM = 4
  TSCH_QUEUE_NUM_PER_NEIGHBOR = 4
  MaxNbrs = 3
  MaxWindow = 1
INVARIANTS Owned
PROPERTIES FifoSpec InSequence SentComes
