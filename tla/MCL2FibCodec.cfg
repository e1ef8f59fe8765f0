CONSTANTS
  MacWords = {0, 258, 65535}
  GhWords = {0, 65535}
  BdIndices = {0, 1, 65535}
  SnBytes = {0, 1, 255}
SPECIFICATION Spec
INVARIANTS
  KeyInjective
  SeqNumRoundTrip
