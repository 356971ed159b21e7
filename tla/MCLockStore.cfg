CONSTANTS
  a = a
  b = b
  c = c
  d = d
  x = x
  y = y
  Key = {x, y}
  Requester = {a, b, c, d}
  readSet <- MCreadSet
  writeSet <- MCwriteSet
SPECIFICATION StoreSpec
CHECK_DEADLOCK FALSE
INVARIANTS
  StoreTypeOK
  Exclusion
  HoldersMatchGrants
  QueueConsistent
  LockedConflictFree
PROPERTIES
  WriterNotOvertaken
  ReleasedWhenDecided
