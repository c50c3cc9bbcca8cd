CONSTANTS
  NoJob = NoJob
  NoRecord = NoRecord
  Order <- OneHost
  TcpPorts <- OneTcp
  UdpPorts <- NoPorts
  Grab = FALSE
  TcpRate = FALSE
  Limit = 0
  Workers = 1
  PerHost = 1
  Window = 4
SPECIFICATION Spec
INVARIANTS InterruptKeepsResults
