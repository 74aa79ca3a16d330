SPECIFICATION LiveSpec
CONSTANTS
  NPROC = 2
  NTHREADS = 2
  CPUs = {c1, c2}
  NoCpu = NoCpu
  Boot <- BootPair
  InitCalls = {"wait"}
  Calls = {"wait", "exit", "kill", "kthread_exit", "kthread_join"}
  JoinIds = {1, 2}
  Victims = {2}
  OutOfMemory = FALSE
PROPERTIES CondemnedDies JoinReturns InitReaps
CHECK_DEADLOCK FALSE
