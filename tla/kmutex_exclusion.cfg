SPECIFICATION Spec
CONSTANTS
  Callers = {t1, t2}
  Allocators = {t1}
  MAX_MUTEXES = 2
  StrayIds = {}
  Free = Free
INVARIANT MutualExclusion
