CONSTANTS
  w = w
  r = r
  u = u
  x = x
  y = y
  Txn = {w, r, u}
  Key = {x, y}
  Loaded = {x, y}
  Loader = Loader
  Nothing = Nothing
  readSet <- MCreadSet
  writeSet <- MCwriteSet
  correspondent <- MCcorrespondent
  MaxPrepares <- MCMaxPrepares
  MaxRepeats <- MCMaxRepeats
  Impatient = {w}
SPECIFICATION Spec
CHECK_DEADLOCK FALSE
INVARIANTS
  TypeOK
  PreparedConflictFree
  
  AnnouncedAfterDependencies
