SPECIFICATION Spec
CONSTANTS
  Vip = {p, q, r}
  Addr = {e1}
  NoAddr = NoAddr
  Recv = {recv}
  Directory = {}
  Gui = {gui}
  Registry = {registry}
  MaxPeers = 1
  MaxTime = 2
  MaxCells = 4
SYMMETRY AllSymmetry
VIEW TableView
INVARIANTS TypeOK TableBound JustInserted
