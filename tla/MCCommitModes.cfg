CONSTANTS
  n = 3
  f = 1
  COMMIT_RETRIES = 2
  Setup <- MCSetup
SPECIFICATION Spec
CHECK_DEADLOCK FALSE
INVARIANTS
  TypeOK
  SlowCommitIsDurable
  RCCommitIsVoted
  CarouselCommitIsDurable
  AppliedIsDecided
