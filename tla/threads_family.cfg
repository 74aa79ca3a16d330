SPECIFICATION Spec
CONSTANTS
  NPROC = 3
  NTHREADS = 2
  CPUs = {c1, c2}
  NoCpu = NoCpu
  Boot <- BootPair
  InitCalls = {"wait"}
  Calls = {"fork", "wait", "exit", "kill"}
  JoinIds = {1}
  Victims = {1, 2}
  OutOfMemory = TRUE
SYMMETRY CpuSymmetry
INVARIANTS ThreadInv NoLostWait KilledWaiterRoused ChildHasParent
