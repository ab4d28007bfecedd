\* Whose words are the answers when addr2line cannot be run?
SPECIFICATION ReadPerfSpec
CONSTANTS
  Addresses <- MCAddresses
  MaxCalls = 2
  Tool <- MCTool
  Overview <- MCOverview
  PipeSize = 4
  BufferLines = 3
  NoAddr = NoAddr
  CacheSize = 2
INVARIANT
  AnswersAreAlwaysTools
CHECK_DEADLOCK FALSE
