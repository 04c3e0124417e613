SPECIFICATION Spec
CONSTANTS
  k1 = k1
  k2 = k2
  k3 = k3
  short = short
  long = long
  t1 = t1
  t2 = t2
  Keys <- MCKeys
  Values <- MCValues
  SizeOf <- MCSizeOf
  HotHash <- MCHotHash
  Threads = {t1}
  Zero = Zero
  NotFound = NotFound
  Nothing = Nothing
INVARIANTS TypeOK PoolAgrees
PROPERTIES GetIsCurrent ImplementsKVStore
