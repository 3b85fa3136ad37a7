SPECIFICATION FairSpec
CONSTANTS
  Threads = {t1, t2}
  NoThread = NoThread
  AppSends = {"plain", "random", "nonzero", "nonce", "forward", "commit"}
  NestedSends = {"plain", "random", "nonzero", "nonce"}
  ForwardSends = {"plain", "random", "nonce", "forward"}
  NO_ENTROPY_FAILURES = 2
  MaxDepth = 3
INVARIANTS LockCountExact NotKeptLocked NoEmbrace
PROPERTIES MessagesReturn
CHECK_DEADLOCK FALSE
