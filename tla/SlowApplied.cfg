CONSTANTS
  n = 3
  f = 1
  COMMIT_RETRIES = 2
  Setup <- MCSlow
SPECIFICATION Spec
CHECK_DEADLOCK FALSE
INVARIANTS
  CommitApplied
