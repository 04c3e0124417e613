SPECIFICATION FairSpec
CONSTANTS
  k1 = k1
  k2 = k2
  k3 = k3
  Keys <- MCKeys
  Hash <- MCHash
  Offsets = {o1, o2}
  Size = 4
  Slots = 3
  Readers = {r}
  Writers = {w}
  Empty = Empty
  NoKey = NoKey
INVARIANTS OneEntryPerKey
PROPERTIES SetTakesHold NothingForgotten GetIsCurrent CallsEnd
