SPECIFICATION Spec
CONSTANTS
  Conns = {k1, k2}
  None = None
  MaxPayload = 2
  BufferBytes = 2
  Chunk = 2
  StdinLen = 4
  TargetLen = 0
  Events = {"break", "switch", "stdin_eof", "stdin_error", "target_error"}
SYMMETRY ConnSymmetry
INVARIANTS
  TypeOK
  ClientReplayWindow
  AckedBytesReachedTarget
  TargetIsPrefix
  BuffersBounded
PROPERTY StdinReachesTarget
