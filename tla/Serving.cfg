SPECIFICATION ServingSpec
CONSTANTS
  Keys = {k1, k2}
  Requests = {q1, q2}
  Buckets = {b1, b2}
  Burst = 2
  Cost = 2
  IdleTimeout = 5
  MaxStall = 1
  NoBucket = NoBucket
  NoVerdict = NoVerdict
  ProviderCount = 2
  Completions = {d1, d2}
  RpmLimit = 1
  Window = 1
  RetryAfters = {1, 2}
  Recovery = 2
  ErrorLimit = 2
  Calls = {c1, c2}
  c1 = c1
  c2 = c2
  InputsOf <- ServedInputs
  DocBatch = 3
  DailyLimit = 2
  MaxRetries = 1
  DayLength = 2
  Resets = {0, 1}
  MaxLost = 1
INVARIANTS
  ServingTypeOK
  OverrunBounded
  DailyQuotaHolds
  ExhaustionIsHeeded
  VectorsMatchInputs
PROPERTIES
  ImplementsTokenBucket
  RestIsRespected
  CallsFinish
CHECK_DEADLOCK FALSE
