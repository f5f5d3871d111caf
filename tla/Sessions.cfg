SPECIFICATION FairSpec
CONSTANTS
  t1 = t1
  t2 = t2
  t3 = t3
  p = p
  q = q
  None = None
  Threads = {t1, t2, t3}
  Processes = {p, q}
  ProcessOf <- MCProcessOf
  Policies = {"every_batch"}
  AutoThreshold = 1
  Handles = {1, 2}
  Calls <- MCCalls
  MaxKills = 1
INVARIANTS OneStore CompareAndSet ReadsSeeOneMoment
PROPERTIES NeverClobbered CallsReturn
CHECK_DEADLOCK FALSE
