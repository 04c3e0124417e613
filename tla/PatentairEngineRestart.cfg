SPECIFICATION Spec
CONSTANTS
  Keys = {k1, k2}
  Values = {v1, v2}
  t1 = t1
  t2 = t2
  Threads <- MCThreads
  MaxFile = 2
  MaxRecords = 4
  Workloads <- MCOneClient
  NotFound = NotFound
  Zeros = Zeros
  Nothing = Nothing

PROPERTY RestartKeepsTheLatest
