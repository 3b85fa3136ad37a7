CONSTANTS
  r1 = r1
  r2 = r2
  r3 = r3
  r4 = r4
  old = old
  k1 = k1
  k2 = k2
  u1 = u1
  u2 = u2
  Requests <- MCRequests
  Originals <- MCOriginals
  Kind <- MCKind
  KeyOf <- MCKeyOf
  UserOf <- MCUserOf
  Target <- MCTarget
  Cleaner = Cleaner
  NoCert = NoCert
  MayFail = TRUE
  MaxErrors = 2
  MaxEntries = 4
  MaxCrashes = 1
SPECIFICATION FairSpec
INVARIANTS RevokedIsGone KeyKept OnlyConfirmedActive AcknowledgedIsDone
PROPERTIES CleanedUp CertLifecycleSpec CleanupEnds
