SPECIFICATION ServicesSpec
CONSTANTS
  NULL = NULL
  NoHandle = NoHandle
  x1 = x1
  c1 = c1
  c2 = c2
  t1 = t1
  t2 = t2
  sign = sign
  encrypt = encrypt
  Contexts = {x1}
  Certs = {c1, c2}
  Threads = {t1, t2}
  Usages = {sign, encrypt}
  MaxUid = 4
  Remains = {2, 3, 4}
  Blocks = {1, 2, 3, 4}
  First <- FirstPage
  Last2 <- LastPage
  LockResults = {TRUE}
  MAX_NO_OBJECTS = 8
  NO_SYSTEM_OBJECTS = 2
  Steps <- EightSteps
  INT_MAX = 3
  Watched = 5
  Fixup = 3
  Starts <- ClockTimes
  CreateLoads <- LoadsToCreate
  DestroyLoads <- LoadsToDestroy
SYMMETRY Symmetry
INVARIANTS OverflowExact RefCountsExact NothingMissed ListInOrder RefsBalanced ConstrainedByCert
PROPERTIES ReusedInTurn NotUnderDependent SharedPageStaysLocked
CHECK_DEADLOCK FALSE
