SPECIFICATION Spec
CONSTANTS
  Member = {a, b}
  Addr = {x, y}
  NoAddr = NoAddr
  Stores = 2
  StaleAfter = 0
  Heartbeat = 5
  ClockSkew = 1
  Ahead <- MCAhead
  Fast = {}
  FastBy = 2
  Movers = {}
  Restarters = {b}
  MaxSync = 1
  Timely = FALSE
  MaxTime = 2
  MaxSeq = 2
SYMMETRY AddrSymmetry
INVARIANTS TypeOK CarriedUnchanged FloorSound MembershipKept
PROPERTY FloorMonotone
