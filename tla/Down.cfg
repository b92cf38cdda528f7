SPECIFICATION Spec
CONSTANTS
  Conns = {k1, k2}
  None = None
  MaxPayload = 2
  BufferBytes = 2
  Chunk = 2
  StdinLen = 0
  TargetLen = 4
  Events = {"break", "switch", "stdout_error", "target_eof"}
SYMMETRY ConnSymmetry
INVARIANTS
  ServerReplayWindow
  AckedBytesReachedStdout
  StdoutIsPrefix
  BuffersBounded
PROPERTY TargetReachesStdout
