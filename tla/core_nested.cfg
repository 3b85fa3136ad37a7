CONSTANTS
  h1 = h1
  h2 = h2
  Threads = {t1}
  Handles = {h1, h2}
  NoThread = NoThread
  NoHandle = NoHandle
  Dependencies <- OnePair
  AppSends = {"use", "decref", "lock"}
  LibSends = {"use", "incref", "decref", "lock"}
  MayShutDown = FALSE
  MaxUid = 3
  MaxRefs = 2
  MaxFrames = 3
  MaxWait = 2
  MaxNest = 1
SPECIFICATION Spec
INVARIANTS LockCountExact
