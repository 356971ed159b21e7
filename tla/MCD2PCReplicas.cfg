CONSTANTS
  Txn = {t1}
  NShards = 2
  n = 2
  f = 1
  MaxLsn = 1
  COMMIT_RETRIES = 2
  Timers = {0, 1}
  Unsendable = {0, 1}
  Conflicts = {0, 1}
  tpcMode = "PARALLEL"
  participants <- MConeShard
  primary <- MCprimary
SPECIFICATION Spec
CHECK_DEADLOCK FALSE
INVARIANTS
  TypeOK
  CommitIsDurable
