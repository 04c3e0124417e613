SPECIFICATION Spec
CONSTANTS
  Keys = {a, b}
  short = short
  long = long
  Threads = {t1, t2}
  Alone = t1
  Reserve = 1
  MaxSets = 5
  MaxStops = 1
  V = 2
  K = 4
  PeipeiSets = 6
  MaxFile = 2
  PatenSets = 4
  Workloads <- MCWorkloads
  ExampleKeys <- MCExampleKeys
  ExampleValues <- MCExampleValues
  ExampleSize = 13
  FirstValues = {short, long}
  SizeOf <- MCSizeOf
  Hash <- MCHash
  Slots = 3
  FileSize = 480
  CntMod = 4
  FirstSets = 4
  Zero = Zero
  Foreign = Foreign
  NotFound = NotFound
  Nothing = Nothing
INVARIANTS TypeOK  FirstItemsOwnedOnce P7AnswersAreLatest PatenIndexesLeadToValues 
PROPERTIES ExampleImplementsKVStore PeipeiImplementsPhasedStore
