CONSTANTS
  Macs = {m1}
  Bds = {0}
  Ifs = {i1}
  NoSwIf = NoSwIf
  NoKey = NoKey
  Workers = {}
  Capacity = 1
  MaxIfResets = 256
  MaxBdResets = 0
  MaxScans = 0
  AdminFlags = {}
  MaxEvMacs = 0
  KeyOrder <- MCKeyOrder
SPECIFICATION Spec
INVARIANTS
  EpochStaleDetected
