SPECIFICATION StorageSpec
CONSTANTS
  Ops = {t1, t2}
  Blocks = {b1, b2, b3}
  Values = {0, 1}
  Zero = 0
  MAXOPBLOCKS = 2
  LOGSIZE = 4
  NLOG = 4
  OpBlocks = 1
  Procs = {1, 2}
  NOFILE = 2
  NFILE = 2
  NPIPE = 1
  Writers = {w1, w2}
  Inodes = {1, 2}
  NDIRECT = 1
  NINDIRECT = 1
  BSIZE = 2
  NBLOCKS = 3
  MAXCHUNK = 2
  WriteData <- MCWriteData
  NoWriter = NoWriter
SYMMETRY OpSymmetry
INVARIANTS LogInv FilesCounted ReadsBack BlocksOwnedOnce
PROPERTY StoreSpec
CHECK_DEADLOCK FALSE
