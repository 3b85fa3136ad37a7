SPECIFICATION Spec
CONSTANTS
  NoHandle = NoHandle
  Contexts = {"x1"}
  Certs = {"c1", "c2"}
  Threads = {"t1", "t2"}
  Usages = {"sign"}
  MaxUid = 3
PROPERTIES NotOverwritten
CHECK_DEADLOCK FALSE
