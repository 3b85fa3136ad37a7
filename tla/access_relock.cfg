SPECIFICATION FairSpec
CONSTANTS
  Threads = {t1, t2}
  NoThread = NoThread
  AppSends = {"plain"}
  NestedSends = {"random"}
  ForwardSends = {}
  NO_ENTROPY_FAILURES = 2
  MaxDepth = 2
PROPERTIES OwnLockUndone
CHECK_DEADLOCK FALSE
