\* Uploads of up to five packets of six bytes, two of them the head, received
\* in pieces of any length.
SPECIFICATION FairSpec
CONSTANTS
  P = 6
  Offset = 2
  StatusSize = 3
  Sizes = {1, 2, 3, 4, 5, 6, 7, 8, 9, 10, 11, 12, 13, 14, 15, 16, 17, 18, 19, 20, 21, 22, 23, 24, 25, 26, 27}
INVARIANTS TypeOK ContentIsWhole InStep SpinsOnlyIfCutOff
PROPERTIES UploadEnds
CHECK_DEADLOCK FALSE
