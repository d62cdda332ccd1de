SPECIFICATION Spec
CONSTANTS
  t1 = t1 t2 = t2 t3 = t3 t4 = t4
  Task = {t1, t2, t3, t4}
  InitTask = t1
  PID_MAX = 5
  RESERVED = 2
  PidHash = {0, 1}
  pid_hashfn <- Parity
INVARIANTS CacheSound FindsTheTask
PROPERTY RightAnswer
SYMMETRY Symmetry
CONSTRAINT Followed
