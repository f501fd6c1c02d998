SPECIFICATION FairSpec
CONSTANTS
  Addr = {e1, e2, m1}
  Manual = {m1}
  NoAddr = NoAddr
  Tx = {t1, t2}
  NoTx = NoTx
  Servers = 1
  Caching = TRUE
  MaxNet = 2
  MaxWakes = 1
INVARIANTS TypeOK OwnAnswer ManualWins
PROPERTIES EventuallyRight StopEnds
CHECK_DEADLOCK FALSE
