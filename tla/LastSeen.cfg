\* Two clients, one of whose ids starts with a digit.
SPECIFICATION Spec
CONSTANTS
  None = None
  Conns = {c1}
  Ids = {i1, i2}
  Names = {n1, n2}
  AsciiNames = {n1, n2}
  FileNames = {"a"}
  Unwritable = {}
  Keys = {k1}
  Files = {f1}
  SizeOf <- OnePacket
  DigitIds = {i1}
  FaultKinds = {}
  MaxFaults = 0
  MaxCrashes = 0
  InFlight = {0}
  EnvCodes = {"REGISTRATION", "PUBLIC_KEY"}
INVARIANTS SeenIsOwn
CHECK_DEADLOCK FALSE
