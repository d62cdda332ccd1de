SPECIFICATION Spec
CONSTANTS
  t1 = t1 t2 = t2 t3 = t3
  Idle = Idle
  Task = {t1, t2, t3}
  Reaper = t1
  MAX_RT_PRIO = 2
  MAX_PRIO = 4
  DefaultPrio = 2
  MIN_TIMESLICE = 1
  MAX_TIMESLICE = 2
  HZ = 1
  UINT = 16
  InitTasks = {t1, t2}
  Bonuses = {0}
  ReqTimes = {1000}
  Workload = {"fork", "short", "fork_block", "exit"}
INVARIANT ForkHasTime
