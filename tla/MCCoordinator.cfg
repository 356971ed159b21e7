CONSTANTS
  Txn = {t1}
  NShards = 4
  n = 2
  tpcMode = "PARALLEL"
  participants <- MCparticipants
  primary <- MCprimary
  Unsendable = {}
  Blocked = {0}
  Cascading = {3}
SPECIFICATION EnvSpec
INVARIANTS
  CoordTypeOK
  DecisionIsFaultTolerant
  OneDecider
  DecisionRespectsDependencies
  NoMissedDecision
