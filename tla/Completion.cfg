SPECIFICATION FairSpec
CONSTANTS
  p1 = p1 p2 = p2 p3 = p3
  c1 = c1 c2 = c2 c3 = c3
  Parent = {p1, p2, p3}
  Child = {c1, c2, c3}
  None = None
INVARIANTS WakeupPerCompletion OneReturnPerCompletion FrameOutlivesUse
PROPERTY EveryParentReturns
