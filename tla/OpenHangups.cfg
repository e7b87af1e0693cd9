\* Registrations and uploads by clients that may hang up at any time:
\* two connections, two ids for one name.
SPECIFICATION FairSpec
CONSTANTS
  None = None
  Conns = {c1, c2}
  Ids = {i1, i2}
  Names = {n1}
  AsciiNames = {n1}
  FileNames = {"a"}
  Keys = {k1}
  Files = {f1}
  SizeOf <- TwoPackets
  DigitIds = {}
  FaultKinds = {}
  MaxFaults = 0
  MaxCrashes = 0
  InFlight = {0}
  Unwritable = {}
  EnvCodes = {"REGISTRATION", "SEND_FILE", "CHUNK"}
INVARIANTS NamesUnique OneSession LockAccounted
PROPERTIES PromiseKept HangUpFreesLock
CHECK_DEADLOCK FALSE
