SPECIFICATION Spec
CONSTANTS
  NPROC = 2
  NTHREADS = 3
  CPUs = {c1, c2}
  NoCpu = NoCpu
  Boot <- BootPair
  InitCalls = {"wait"}
  Calls = {"wait", "exit", "exec", "fault", "piperead", "consoleread", "kthread_create", "kthread_exit", "kthread_join"}
  JoinIds = {1, 2, 3}
  Victims = {2}
  OutOfMemory = TRUE
SYMMETRY CpuSymmetry
INVARIANTS OneCpuPerThread LastThreadOut NoLostJoin ExecAlone 
CHECK_DEADLOCK FALSE
