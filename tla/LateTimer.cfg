SPECIFICATION Spec
CONSTANTS
  Conns = {k1, k2}
  None = None
  MaxPayload = 1
  BufferBytes = 1
  Chunk = 1
  StdinLen = 0
  TargetLen = 0
  Events = {"break"}
SYMMETRY ConnSymmetry
PROPERTY TimerSparesResumed
