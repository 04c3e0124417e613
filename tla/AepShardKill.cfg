SPECIFICATION FairSpec
CONSTANTS
  a = a
  x = x
  y = y
  b = b
  short = short
  long = long
  Keys <- MCKeys
  Values <- MCValues
  SizeOf <- MCSizeOf
  Zero <- MCZero
  MaxIdx = 1
  FileSize = 416
  Reserve = 0
  MaxFree = 5
  MaxCnt = 4
  CrashKinds = {"kill"}
  NotFound = NotFound
  Nothing = Nothing
INVARIANTS TypeOK EveryByteOwned NothingPastEnd CountsDecide
PROPERTIES RecoveryEnds ImplementsKVStore
