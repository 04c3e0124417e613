SPECIFICATION Spec
CONSTANTS
  k1 = k1
  k2 = k2
  k3 = k3
  Keys <- MCKeys
  Hash <- MCHash
  Offsets = {o1}
  Size = 4
  Slots = 3
  Readers = {}
  Writers = {w1, w2}
  Empty = Empty
  NoKey = NoKey
PROPERTY SetTakesHold
