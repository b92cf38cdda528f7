SPECIFICATION ComponentsSpec
CONSTANTS
  p1 = p1
  p2 = p2
  p3 = p3
  PathSeq <- MCPathSeq
  Priority <- MCPriority
  Workers = 2
  RTTs = {1, 2}
  None = None
  r1 = r1
  r2 = r2
  Routes = {r1, r2}
  Preference <- MCPreference
  FailureThreshold = 2
  SuccessThreshold = 2
  Cooldown = 1
  ResumeTimeout = 2
  RetryBase = 2
  RetryMax = 2
  MinDelta = 1
  RatioNum = 1
  RatioDen = 4
  RoundTrips = {0, 1, 3}
  MaxAttempt = 1
  MaxEpoch = 3
  Nonces = {n1, n2, n3}
  NoNonce = NoNonce
  Addresses = {a1, a2, a3}
  MaxDials = 2
  NoAddress = NoAddress
  Proxies = {x1, x2}
  Names = {m1, m2}
  NoName = NoName
  Callers = {k1, k2}
  Links = {l1, l2}
  Ids = {i1, i2}
  NoCaller = NoCaller
  NoLink = NoLink
  NoId = NoId
  FileLines <- MCFileLines
  MaxLines = 7
  MaxHeaderBytes = 2
  MaxPayloadBytes = 3
  LengthLimit = 8
  HeaderSizes = {1, 2, 3}
  PayloadSizes = {0, 1, 3, 8}
  MessageSizes = {0, 7, 8, 10, 11, 13, 14}
  Lengths = {0, 2, 3, 4}
INVARIANTS
  ComponentsTypeOK
  HandedOverAlive
  NothingLeaks
  OutcomeIsTrue
  EveryPathTried
  NoLostWakeup
  BackoffWithinDeadline
  PingResolvedOnce
  OwnPongOnly
  DialLeavesNothing
  CacheIsWhole
  HintIsUsable
  OwnSessionOnly
  EndedServesNobody
  EndsAgree
PROPERTIES
  SwitchesReplaceTheirSource
  KeysAreWriteOnce
  RefusalsAreFinal
  CallsSettle
  OutagesEnd
  FailuresActedOn
  OpensEnd
  OrphanedSessionsEnd
CHECK_DEADLOCK FALSE
