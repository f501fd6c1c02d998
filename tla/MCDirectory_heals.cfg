SPECIFICATION FairSpec
CONSTANTS
  Member = {a, b}
  Addr = {x, y}
  NoAddr = NoAddr
  Stores = 1
  StaleAfter = 9
  Heartbeat = 1
  ClockSkew = 1
  Ahead <- MCAhead
  Fast = {}
  FastBy = 2
  Movers = {a}
  Restarters = {}
  MaxSync = 1
  Timely = TRUE
  MaxTime = 2
  MaxSeq = 3
PROPERTY EventuallyListed
