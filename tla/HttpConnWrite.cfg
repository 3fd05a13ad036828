SPECIFICATION Spec
CONSTANTS
  Requests <- MCRequests
  ReadBufferSize = 10
  WriteBufferSize = 7
  HeaderLen = 3
  PageLen = 1
  FileSizes = {0, 2}
  MaxClients = 2
  MaxRequests = 2
  MaxCuts = 1
  MaxAgains = 0
INVARIANT WirePrefix
