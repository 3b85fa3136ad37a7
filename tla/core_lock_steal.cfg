CONSTANTS
  h1 = h1
  h2 = h2
  Threads = {t1, t2}
  Handles = {h1, h2}
  NoThread = NoThread
  NoHandle = NoHandle
  Dependencies <- NoPairs
  AppSends = {"use", "decref", "lock"}
  LibSends = {}
  MayShutDown = FALSE
  MaxUid = 2
  MaxRefs = 2
  MaxFrames = 2
  MaxWait = 2
  MaxNest = 1
SPECIFICATION Spec
INVARIANTS ExclusiveUse
