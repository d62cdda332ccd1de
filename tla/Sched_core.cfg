SPECIFICATION Spec
CONSTANTS
  t1 = t1 t2 = t2 t3 = t3
  Idle = Idle
  Task = {t1, t2, t3}
  Reaper = t1
  MAX_RT_PRIO = 2
  MAX_PRIO = 4
  DefaultPrio = 2
  MIN_TIMESLICE = 1
  MAX_TIMESLICE = 2
  HZ = 1
  UINT = 8
  InitTasks = {t1, t2}
  Bonuses = {0, 1}
  ReqTimes <- BothSigns
  Workload = {"sleep", "short", "yield", "normal"}
INVARIANTS TypeOK RunqueueExact UninterruptibleExact SliceWithinRequest PickIsATask CurrentOnRunqueue
PROPERTIES BestTaskRuns ImplementsShortPolicy
