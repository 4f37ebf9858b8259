SPECIFICATION RequestSpec
CONSTANTS
  Caller = {c1, c2}
  Burst = 1
  Parts = 2
  StaleAfter = 1
  MaxWaits = 3
  MaxDeaths = 1
  LastStart = 1
  LastTick = 3
  Start <- SomeLimiters
  Advertised <- SomeHeaders
  RampAfter = 2
  Brake = 2
  Second = 12
  RateBound = 8
  TTL = 0
  Client = {u1, u2}
  Operation <- SomeOperations
  Mode = {"live", "verify", "dry-run"}
  Policy <- SomePolicies
  Retries = 1
  Asked = {0, 2, 3}
  CallsEach <- CallBound
  MaxBytes = 20
  MaxItems = 3
  Previews = {0, 2, 4}
  Frame = 4
  CursorBytes = 4
  Shape <- SomeAnswers
  Metadata = {0, 3}
  ListChanges = 2
INVARIANTS RequestsTypeOK OverlapOnlyAfterDeath NothingLost RateWithinLimits NoReplay ReadsOwnWrites ResultsHonest
PROPERTY EveryWaitEnds
CHECK_DEADLOCK FALSE
