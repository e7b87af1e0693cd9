\* The client is started while another registers in the same directory.
SPECIFICATION Spec
CONSTANTS
  None = None
  c1 = c1
  c2 = c2
  n1 = n1
  n2 = n2
  f1 = f1
  f2 = f2
  Conns = {c1, c2}
  Ids = {i1, i2}
  Names = {n1, n2}
  AsciiNames = {n1, n2}
  FileNames = {"a", "b"}
  Unwritable = {}
  Keys = {k1, k2}
  Files = {f1, f2}
  SizeOf <- Sizes
  DirOf <- Together
  InfosOf <- OwnFiles
  Memory <- AnyMemory
  ZeroIds = {i1}
  DigitIds = {}
  FaultKinds = {}
  MaxFaults = 0
  MaxCrashes = 0
  MaxKills = 0
INVARIANTS RegisteredHasKey
CHECK_DEADLOCK FALSE
