\* Up to four samples, with and without addr2line, with and without failing forks.
SPECIFICATION FairSpec
CONSTANTS
  Addresses <- MCAddresses
  MaxCalls = 4
  Tool <- MCTool
  Overview <- MCOverview
  PipeSize = 4
  BufferLines = 3
  NoAddr = NoAddr
  CacheSize = 2
INVARIANTS
  TypeOK
  AnswersAreTools
  PipesClosed
  OverviewComplete
  TablePerProcess
  ResultsComplete
PROPERTY
  Finishes
CHECK_DEADLOCK FALSE
