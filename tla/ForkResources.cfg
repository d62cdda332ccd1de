SPECIFICATION Spec
CONSTANTS
  t1 = t1 t2 = t2 t3 = t3 t4 = t4 t5 = t5
  o1 = o1 o2 = o2 o3 = o3
  Task = {t1, t2, t3, t4, t5}
  InitTask = t1
  Obj = {o1, o2, o3}
  slab <- SmallSlab
  NULL = NULL
  InitMm = InitMm
  Sharing <- SomeSharing
  max_threads = 3
  RLIMIT_NPROC = 4
INVARIANTS TypeOK ReferencesExact MmlistExact FsInOneNamespace Limits
PROPERTY ForkIsAtomic
CONSTRAINT Intact
SYMMETRY Symmetry
