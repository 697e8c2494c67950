\* A token is renewed two units before its end, a call takes one at most.
CONSTANTS
  NumUsers = 1
  Traders = {1}
  Timeout = 1
  Margin = 2
  Lifetime = 3
  ReseedInterval = 2
  NumSeeds = 2
  MaxLosses = 2
  Runs = {r1, r2}
  Settled = {1, 2, 3, 4, 5}
  Recent = {2, 3, 4, 5}
  Yen = {1, 4}
  ScenarioEnabled = TRUE
  ChunkSize = 2
SPECIFICATION FairSpec
INVARIANTS
  TypeOK
  TokenOutlivesCall
  StaleOnlyAfterRestart
  
  FailedForCause
PROPERTIES
  PoolRecovers
  EveryRunEnds
