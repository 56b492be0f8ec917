SPECIFICATION LFairSpec
CONSTANTS
  k1 = k1
  k2 = k2
  k3 = k3
  k4 = k4
  Packet = {k1, k2, k3, k4}
  r = r
  s = s
  b = b
  Addr = {r, s, b}
  Dest <- MCDest
  OtherSeqnos = {0}
  Block = {1, 2}
  NULL = NULL
  Limit <- MCLimit
  CSMA_MAX_BACKOFF = 1
  CSMA_MAX_PACKET_PER_NEIGHBOR = 2
  QUEUEBUF_NUM = 2
  Receiver = r
  Broadcast = b
  Sender = me
  Other = {o1}
  DsnSize = 2
  MAX_SEQNOS = 1
INVARIANTS NothingLeaks NotAgain DroppedIsRound
PROPERTIES RetriesCounted InOrder SentIsReported
