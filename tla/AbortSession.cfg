\* A client gives its upload up.
SPECIFICATION FairSpec
CONSTANTS
  None = None
  Conns = {c1}
  Ids = {i1}
  Names = {n1}
  AsciiNames = {n1}
  FileNames = {"a"}
  Keys = {k1}
  Files = {f1}
  SizeOf <- OnePacket
  DigitIds = {}
  FaultKinds = {}
  MaxFaults = 0
  MaxCrashes = 0
  InFlight = {0}
  Unwritable = {}
  EnvCodes = {"REGISTRATION", "CRC_ABORT"}
PROPERTIES AbortEndsSession
CHECK_DEADLOCK FALSE
