\* System calls that fail with EIO and ESPIPE.
SPECIFICATION Spec
CONSTANTS
  Files <- MCFiles
  Known = {"COMM", "SAMPLE"}
  SAMPLE = "SAMPLE"
  Logged = {"COMM", "SAMPLE", "LOST"}
  Errnos = {5, 29}
  MaxEvent = 13
  MaxChain = 3
  LinkStart = 2
  IntSize = 128
INVARIANT
  SystemErrorsReported
CHECK_DEADLOCK FALSE
