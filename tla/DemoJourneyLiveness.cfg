SPECIFICATION FairSpec
CONSTANTS
  Run = {r1}
  Session = {s1}
  None = None
  Concurrent = 1
  GlobalConcurrent = 1
  Retained = 2
  GlobalRetained = 2
  MaxAttempts = 3
  MaxRetries = 2
  MaxCrashes = 3
  Blips = {}
INVARIANT TypeOK
PROPERTY Settles
