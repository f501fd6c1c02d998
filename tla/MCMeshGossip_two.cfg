SPECIFICATION Spec
CONSTANTS
  a = a b = b c = c e1 = e1 e2 = e2 e3 = e3 e4 = e4 la = la lb = lb
  Node = {a, b}
  Endpoint = {e1, e2, e3}
  NoAddr = NoAddr
  NoPeer = NoPeer
  Lan <- NoLan
  Site <- SiteEach
  Skew <- NoSkew
  MaxSkew = 0
  MaxDelay = 1
  MaxPeers = 2
  Cards <- CardAB
  Movers = {a, b}
  Restarters = {b}
  Stunners = {a, b}
  Traffic = TRUE
  Importers = {b}
  Reimports = FALSE
  MaxClock = 2
  MaxInFlight = 1
SYMMETRY PublicSymmetry
INVARIANTS TypeOK 
PROPERTIES DirectObservationWins EpochMonotone
