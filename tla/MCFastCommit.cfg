CONSTANTS
  Txn = {t1}
  NShards = 2
  n = 2
  f = 1
  MaxLsn = 2
  COMMIT_RETRIES = 2
  Timers = {0, 1}
  Unsendable = {1}
  Conflicts = {0, 1}
  tpcMode = "FAST"
  participants <- MCparticipants
  primary <- MCprimary
SPECIFICATION LiveSpec
CHECK_DEADLOCK FALSE
INVARIANTS
  TypeOK
  PrepareOKIsDurable
  PromiseKept
PROPERTIES
  Refinement
  ClientDecides
