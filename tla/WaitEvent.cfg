SPECIFICATION FairSpec
CONSTANTS
  e1 = e1 i1 = i1 s1 = s1 k1 = k1 k2 = k2
  Event = {e1}
  Interruptible = {i1}
  Sleeper = {s1}
  Waker = {k1, k2}
INVARIANTS NoLostWakeup SleepOnIsWoken
PROPERTIES SignalEndsWait EventEndsWait
