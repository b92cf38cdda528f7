SPECIFICATION Spec
CONSTANTS
  Conns = {k1, k2}
  None = None
  MaxPayload = 2
  BufferBytes = 2
  Chunk = 1
  StdinLen = 0
  TargetLen = 2
  Events = {"break", "switch"}
SYMMETRY ConnSymmetry
INVARIANT HandoffIsNotFatal
