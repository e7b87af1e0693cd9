\* Two clients and one file name over one connection; one statement of any
\* kind may fail, anywhere, and the file name is one that cannot be written.
SPECIFICATION Spec
CONSTANTS
  None = None
  Conns = {c1}
  Ids = {i1, i2}
  Names = {n1, n2, n3}
  AsciiNames = {n1, n2}
  FileNames = {"a"}
  Keys = {k1, k2}
  Files = {f1}
  SizeOf <- OnePacket
  DigitIds = {}
  FaultKinds = {"select", "commit", "save"}
  MaxFaults = 1
  MaxCrashes = 0
  InFlight = {0}
  Unwritable = {"a"}
  EnvCodes = {"REGISTRATION", "PUBLIC_KEY", "SEND_FILE", "CRC_VALID", "CRC_RESEND", "CRC_ABORT"}
SYMMETRY Symmetry
INVARIANTS IInv AnswersAreTrue
PROPERTIES RowsArePermanent
CHECK_DEADLOCK FALSE
