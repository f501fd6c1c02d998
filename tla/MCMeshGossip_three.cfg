SPECIFICATION Spec
CONSTANTS
  a = a b = b c = c e1 = e1 e2 = e2 e3 = e3 e4 = e4 la = la lb = lb
  Node = {a, b, c}
  Endpoint = {e1, e2, e3, e4}
  NoAddr = NoAddr
  NoPeer = NoPeer
  Lan <- NoLan
  Site <- SiteEach
  Skew <- NoSkew
  MaxSkew = 0
  MaxDelay = 0
  MaxPeers = 3
  Cards <- CardsToC
  Movers = {b}
  Restarters = {}
  Stunners = {b}
  Traffic = FALSE
  Importers = {}
  Reimports = FALSE
  MaxClock = 2
  MaxInFlight = 1
SYMMETRY PublicSymmetry
INVARIANTS Provenance 
