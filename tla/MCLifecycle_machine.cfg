SPECIFICATION Spec
CONSTANTS
  MaxStarts = 2
  Thread = {0, 1, 2}
  MyName = me
  Peer = {p}
  Name = {me, p}
  Unreadable = TRUE
  MaxEdits = 1
  MaxQuits = 1
  MaxSys = 2
INVARIANTS TypeOK Resolvable OriginalKept ForeignKept
VIEW View
CHECK_DEADLOCK FALSE
