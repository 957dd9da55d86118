SPECIFICATION FairSpec
CONSTANTS
  Goroutines = {g1, g2, g3}
  Keys = {k1}
  NoKey = NoKey
  None = None
  MaxReadOnly = 1
INVARIANTS TypeOK NoLostWakeup
PROPERTIES SlotsKept AllWork
CHECK_DEADLOCK FALSE
