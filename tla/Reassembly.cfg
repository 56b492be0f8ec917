SPECIFICATION FairSpec
CONSTANTS
  p1 = p1
  p2 = p2
  p3 = p3
  s1 = s1
  s2 = s2
  r = r
  NULL = NULL
  Packet = {p1, p2, p3}
  Src <- MCSrc
  Dest <- MCDest
  uip_len <- MCLen
  uncomp_hdr_len = 40
  packetbuf_hdr_len = 4
  mac_max_payload <- MCPayload
  Refused = {p2}
  Tag = {1, 2}
  SICSLOWPAN_REASS_CONTEXTS = 2
  SICSLOWPAN_FRAGMENT_BUFFERS = 2
  UIP_BUFSIZE = 90
  MaxLength = 80
INVARIANTS DeliveredWhole Accounted
PROPERTY ExpiredIsFreed
