SPECIFICATION FairSpec
CONSTANTS
  a = a b = b m0 = m0 m1 = m1 m2 = m2
  N = 2
  User = {a, b}
  thread <- Threads
  Short = {b}
  Calls <- OwnAndOther
  Idle = Idle
  NULL = NULL
PROPERTY NotLeftBehind
