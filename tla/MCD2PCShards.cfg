CONSTANTS
  Txn = {t1}
  NShards = 2
  n = 1
  f = 0
  MaxLsn = 1
  COMMIT_RETRIES = 1
  Timers = {0}
  Unsendable = {1}
  Conflicts = {1}
  tpcMode = "PARALLEL"
  participants <- MCtwoShards
  primary <- MCprimary
SPECIFICATION Spec
CHECK_DEADLOCK FALSE
INVARIANTS
  CommitIsDurable
