CONSTANTS
  Txn = {t1}
  NShards = 2
  n = 1
  f = 0
  MaxLsn = 1
  COMMIT_RETRIES = 2
  Timers = {0, 1}
  Unsendable = {}
  Conflicts = {0, 1}
  tpcMode = "PARALLEL"
  participants <- MCtwoShards
  primary <- MCprimary
SPECIFICATION Spec
CHECK_DEADLOCK FALSE
INVARIANTS
  AbortedNotApplied
