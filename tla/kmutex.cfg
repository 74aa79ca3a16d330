SPECIFICATION LiveSpec
CONSTANTS
  Callers = {t1, t2, t3}
  Allocators = {t1}
  MAX_MUTEXES = 2
  StrayIds <- BeyondArray
  Free = Free
 
PROPERTY CallReturns
