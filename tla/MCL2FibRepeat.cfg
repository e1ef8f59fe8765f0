CONSTANTS
  Macs = {m1, m2}
  Bds = {0}
  Ifs = {i1}
  NoSwIf = NoSwIf
  NoKey = NoKey
  Workers = {w1}
  Capacity = 2
  MaxIfResets = 0
  MaxBdResets = 0
  MaxScans = 0
  AdminFlags = {}
  MaxEvMacs = 0
  KeyOrder <- MCKeyOrder
SYMMETRY MacIfSymmetry
SPECIFICATION Spec
PROPERTIES
  RepeatHitsCache
