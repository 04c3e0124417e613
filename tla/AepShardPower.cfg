SPECIFICATION Spec
CONSTANTS
  a = a
  x = x
  y = y
  b = b
  short = short
  long = long
  Keys <- MCMixedKeys
  Values <- MCShort
  SizeOf <- MCShortSize
  Zero <- MCZero
  MaxIdx = 0
  FileSize = 384
  Reserve = 0
  MaxFree = 5
  MaxCnt = 3
  CrashKinds = {"kill", "power"}
  NotFound = NotFound
  Nothing = Nothing
INVARIANTS IndexIsLatest
