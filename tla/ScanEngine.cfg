CONSTANTS
  NoJob = NoJob
  NoRecord = NoRecord
  Order <- TwoHosts
  TcpPorts <- OneTcp
  UdpPorts <- OneUdp
  Grab = TRUE
  TcpRate = TRUE
  Limit = 2
  Workers = 2
  PerHost = 2
  Window = 8
SPECIFICATION FairSpec
INVARIANTS RecordsAreComplete EveryHostReported IncompleteScansSaySo
PROPERTIES ImplementsScheduler QuietAfterReport EventuallyReported
