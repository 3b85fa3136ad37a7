SPECIFICATION ThreadsSpec
CONSTANTS
  Threads = {t1, t2, t3}
  NoThread = NoThread
  MaxDepth = 3
  Waiters = {w1, w2, w3}
  CallsMayFail = TRUE
  Users = {u1, u2}
  Main = Main
  UseSessions = TRUE
  MayFail = TRUE
  MaxLives = 2
INVARIANTS RefCountExact HandleOpenUnderWaiters BusyIsSet ReleasedAtEnd NoReleaseDuringBinding
PROPERTIES LockSpec LockIsGranted WaitEnds DriversReady ShutdownEnds
CHECK_DEADLOCK FALSE
