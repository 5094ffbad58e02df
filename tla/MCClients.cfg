SPECIFICATION MCSpec
CONSTANTS
  Systems = {"samurai", "merkle", "verkle", "verklekzg"}
  First = 1
  Last = 3
  MaxChunks = 2
  MaxCalls = 2
  LogSize = 1
  MayStall = TRUE
  MaxClients = 2
  RangeSize = 2
  MaxConcurrency = 2
  MaxDropped = 1
  Queries <- MCQueries
  LoadClients = 2
  RunClients = 1
  LoadSize = 2
  MaxRequests = 3
  SocketSize = 1
  BufferSize = 1
  MaxBreaks = 1
INVARIANTS AnswersAreWhole SummariesAddUp LogHoldsEveryCall
PROPERTY CommandsReturn
CHECK_DEADLOCK FALSE
