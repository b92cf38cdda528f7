SPECIFICATION Spec
CONSTANTS
  Conns = {k1, k2}
  None = None
  MaxPayload = 1
  BufferBytes = 2
  Chunk = 1
  StdinLen = 0
  TargetLen = 1
  Events = {"break", "target_eof"}
SYMMETRY ConnSymmetry
INVARIANT CleanEndIsComplete
