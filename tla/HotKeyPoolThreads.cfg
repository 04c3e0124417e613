SPECIFICATION Spec
CONSTANTS
  k1 = k1
  k2 = k2
  k3 = k3
  short = short
  long = long
  t1 = t1
  t2 = t2
  Keys <- MCOneKey
  Values <- MCValues
  SizeOf <- MCSizeOf
  HotHash <- MCOneHotHash
  Threads = {t1, t2}
  Zero = Zero
  NotFound = NotFound
  Nothing = Nothing
PROPERTY GetIsCurrent
