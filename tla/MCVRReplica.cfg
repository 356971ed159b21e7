CONSTANTS
  n = 3
  f = 1
  c1 = c1
  c2 = c2
  Client <- MCClient
  batchSize = 2
  Setup <- MCSetup
SPECIFICATION Spec
SYMMETRY Symmetry
CHECK_DEADLOCK FALSE
INVARIANTS
  TypeOK
  ViewstampUnique
  NumberedOnce
  CommitSurvives
  Agreement
