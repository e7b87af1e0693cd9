\* A user whose transfer.info names a file that does not exist.
SPECIFICATION Spec
CONSTANTS
  None = None
  c1 = c1
  c2 = c2
  n1 = n1
  n2 = n2
  f1 = f1
  f2 = f2
  Conns = {c1}
  Ids = {i1}
  Names = {n1}
  AsciiNames = {n1}
  FileNames = {"", "a"}
  Unwritable = {""}
  Keys = {k1}
  Files = {f1, f2}
  SizeOf <- Sizes
  DirOf <- Alone
  InfosOf <- NoFile
  Memory <- AnyMemory
  ZeroIds = {i1}
  DigitIds = {}
  FaultKinds = {}
  MaxFaults = 0
  MaxCrashes = 0
  MaxKills = 0
INVARIANTS HurrayMeansStored
CHECK_DEADLOCK FALSE
