\* Uploads of two packets, and of no bytes at all: two connections of any
\* behaviour, one client, one crash of the server.
SPECIFICATION Spec
CONSTANTS
  None = None
  Conns = {c1, c2}
  Ids = {i1}
  Names = {n1}
  AsciiNames = {n1}
  FileNames = {"a"}
  Unwritable = {}
  Keys = {k1}
  Files = {f1}
  SizeOf <- TwoPackets
  DigitIds = {}
  FaultKinds = {}
  MaxFaults = 0
  MaxCrashes = 1
  InFlight = {0}
  EnvCodes = {"REGISTRATION", "PUBLIC_KEY", "SEND_FILE", "CHUNK", "CRC_VALID"}
SYMMETRY Symmetry
INVARIANTS VarifiedIsSaved VarifiedHasFile UploadInv
PROPERTIES MarksWhatItSaved PromiseKept
CHECK_DEADLOCK FALSE
