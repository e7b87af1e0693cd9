\* A user starts the client twice in one directory, under one name, and may
\* edit the file to send in between; nothing is killed.
SPECIFICATION FairSpec
CONSTANTS
  None = None
  c1 = c1
  c2 = c2
  n1 = n1
  n2 = n2
  f1 = f1
  f2 = f2
  Conns = {c1, c2}
  Ids = {i1}
  Names = {n1}
  AsciiNames = {n1}
  FileNames = {"a"}
  Unwritable = {}
  Keys = {k1, k2}
  Files = {f1, f2}
  SizeOf <- Sizes
  DirOf <- Together
  InfosOf <- Changing
  Memory <- AnyMemory
  ZeroIds = {i1}
  DigitIds = {}
  FaultKinds = {}
  MaxFaults = 0
  MaxCrashes = 0
  MaxKills = 0
INVARIANTS ClientTypeOK HurrayMeansStored KeyAgreement
PROPERTIES FilesArrive EveryRunEnds LockIsReleased
CHECK_DEADLOCK FALSE
