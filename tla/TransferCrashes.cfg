\* One user starts the client twice and may have to correct its transfer.info;
\* one process and the server may be killed.
SPECIFICATION Spec
CONSTANTS
  None = None
  c1 = c1
  c2 = c2
  n1 = n1
  n2 = n2
  f1 = f1
  f2 = f2
  Conns = {c1, c2}
  Ids = {i1}
  Names = {n1}
  AsciiNames = {n1}
  FileNames = {"a"}
  Unwritable = {}
  Keys = {k1, k2}
  Files = {f1, f2}
  SizeOf <- Sizes
  DirOf <- Together
  InfosOf <- Learner
  Memory <- NoApproval
  ZeroIds = {i1}
  DigitIds = {}
  FaultKinds = {}
  MaxFaults = 0
  MaxCrashes = 1
  MaxKills = 1
SYMMETRY Symmetry
INVARIANTS IdsAreRegistered VarifiedIsWhole AnswersInOrder
PROPERTIES OpenSpec
CHECK_DEADLOCK FALSE
