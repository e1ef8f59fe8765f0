CONSTANTS
  Macs = {m1}
  Bds = {0, 1, 2}
  Ifs = {i1, i2}
  NoSwIf = NoSwIf
  NoKey = NoKey
  Workers = {}
  Capacity = 3
  MaxIfResets = 0
  MaxBdResets = 0
  MaxScans = 0
  AdminFlags = {}
  MaxEvMacs = 1
  KeyOrder <- MCKeyOrder
SPECIFICATION LiveSpec
PROPERTIES
  EventsReported
