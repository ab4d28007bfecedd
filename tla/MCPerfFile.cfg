\* Files of up to four records, of up to three attributes, cut off or wrong.
SPECIFICATION FairSpec
CONSTANTS
  Files <- MCFiles
  Known = {"COMM", "SAMPLE"}
  SAMPLE = "SAMPLE"
  Logged = {"COMM", "SAMPLE", "LOST"}
  Errnos = {5, 29}
  MaxEvent = 13
  MaxChain = 3
  LinkStart = 2
  IntSize = 128
INVARIANTS
  TypeOK
  LinksKept
  EveryRecordRead
  FieldsAreKernels
  MainHasAttribute
PROPERTY
  Decides
CHECK_DEADLOCK FALSE
