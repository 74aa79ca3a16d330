SPECIFICATION BufSpec
CONSTANTS
  Users = {t1, t2}
  Pid <- OneProcess
  Blocks = {b1, b2, b3, b4}
  NoBlock = NoBlock
  Values = {0, 1}
  Zero = 0
  Nobody = Nobody
  NBUF = 3
  MaxPinned = 1
  ReadOutcomes = {TRUE}
SYMMETRY UserBlockSymmetry
INVARIANTS BufferOwned 
PROPERTY BlockStoreSpec
CHECK_DEADLOCK FALSE
