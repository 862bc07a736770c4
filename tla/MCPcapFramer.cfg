CONSTANTS
  BufSize = 8
  HdrSize = 2
  PktSizes = {1, 2}
  MaxPkts = 5
  MaxRuns = 2
  JavaEnabled = TRUE
  UdpEnabled = TRUE
  DumpOutcomes = {"ok", "arrayFail", "callFail"}
  SocketMayFail = TRUE
  MallocMayFail = TRUE

SPECIFICATION Spec

INVARIANT NoBufferOverrun
INVARIANT JavaSinkExact
INVARIANT SessionHeaderFirst
