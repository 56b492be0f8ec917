SPECIFICATION Spec
CONSTANTS
  f1 = f1
  f2 = f2
  d1 = d1
  d2 = d2
  NULL = NULL
  Name = {f1, f2}
  Data = {d1, d2}
  COFFEE_SECTOR_COUNT = 3
  COFFEE_PAGES_PER_SECTOR = 4
  COFFEE_MAX_OPEN_FILES = 3
  COFFEE_FD_SET_SIZE = 2
  DynPages = 3
  LogPages = 2
  log_records = 2
  ReservePages <- ScanReserve
  Flags <- ScanFlags
  MaxUnits <- ScanMaxUnits
SYMMETRY Symmetry
INVARIANT QuickSkip
CHECK_DEADLOCK FALSE
