\* A data section that ends beyond the range of int.
SPECIFICATION Spec
CONSTANTS
  Files <- MCFiles
  Known = {"COMM", "SAMPLE"}
  SAMPLE = "SAMPLE"
  Logged = {"COMM", "SAMPLE", "LOST"}
  Errnos = {}
  MaxEvent = 13
  MaxChain = 3
  LinkStart = 2
  IntSize = 32
INVARIANT
  EveryRecordRead
CHECK_DEADLOCK FALSE
