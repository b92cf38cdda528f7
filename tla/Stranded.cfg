SPECIFICATION FairSpec
CONSTANTS
  Conns = {k1, k2}
  None = None
  MaxPayload = 1
  BufferBytes = 2
  Chunk = 1
  StdinLen = 1
  TargetLen = 0
  Events = {"break", "switch"}
PROPERTY StdinDelivered
