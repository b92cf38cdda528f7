SPECIFICATION UpkeepFairSpec
CONSTANTS
  r1 = r1
  r2 = r2
  Routes = {r1, r2}
  Preference <- MCPreference
  FailureThreshold = 2
  SuccessThreshold = 2
  Cooldown = 1
  ResumeTimeout = 2
  RetryBase = 1
  RetryMax = 2
  MinDelta = 1
  RatioNum = 1
  RatioDen = 4
  RoundTrips = {1, 3}
  MaxAttempt = 2
  MaxEpoch = 3
PROPERTY OutageEnds
