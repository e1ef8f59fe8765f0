CONSTANTS
  Macs = {m1}
  Bds = {0, 1}
  Ifs = {i1, i2}
  NoSwIf = NoSwIf
  NoKey = NoKey
  Workers = {}
  Capacity = 1
  MaxIfResets = 1
  MaxBdResets = 1
  MaxScans = 2
  AdminFlags = {{}, {0}, {1}, {0, 1}}
  MaxEvMacs = 1
  KeyOrder <- MCKeyOrder
SYMMETRY MacIfSymmetry
SPECIFICATION Spec
INVARIANTS
  TypeOK
  EpochStaleDetected
