SPECIFICATION FairSpec
CONSTANTS
  Conns = {k1, k2}
  None = None
  MaxPayload = 1
  BufferBytes = 1
  Chunk = 1
  StdinLen = 0
  TargetLen = 1
  Events = {"break", "cancel", "target_eof", "dial_error"}
PROPERTIES
  SessionReleased
  ClientRecovers
