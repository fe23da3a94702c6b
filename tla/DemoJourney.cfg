SPECIFICATION Spec
CONSTANTS
  Run = {r1, r2}
  Session = {s1, s2}
  None = None
  Concurrent = 1
  GlobalConcurrent = 2
  Retained = 2
  GlobalRetained = 2
  MaxAttempts = 2
  MaxRetries = 1
  MaxCrashes = 1
  Blips = {}
INVARIANT JournalAccounts
INVARIANT StagesInOrder
INVARIANT CapacityRespected
INVARIANT OffsetsAccounted
PROPERTY NeverUndone
SYMMETRY Symmetry
