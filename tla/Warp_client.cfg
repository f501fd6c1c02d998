SPECIFICATION WarpSpec
CONSTANTS
  Mesh = {m1}
  None = None
  Peer = {p, q}
  Lan = {l}
  Server = {s}
INVARIANT WarpTypeOK
PROPERTIES OnlyToExcludeLists Excluded
CHECK_DEADLOCK FALSE
