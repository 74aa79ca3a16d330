SPECIFICATION Spec
CONSTANTS
  NPROC = 2
  NTHREADS = 3
  CPUs = {c1, c2}
  NoCpu = NoCpu
  Boot <- BootPair
  InitCalls = {"wait"}
  Calls = {"exit", "kthread_create"}
  JoinIds = {1}
  Victims = {2}
  OutOfMemory = FALSE
INVARIANT ExitKillsAll
CHECK_DEADLOCK FALSE
