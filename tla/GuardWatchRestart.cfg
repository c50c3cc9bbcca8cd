CONSTANTS
  Ip <- Addresses
  Gateway = "gw"
  Mac <- TwoMacs
  NoMac = NoMac
  MaxGuards = 3
  Nothing = Nothing
  Empty = Empty
  Tables <- ThreeTables
  MaxOverlaps = 0
  MaxCrashes = 1
SPECIFICATION FairSpec
INVARIANTS ReportedOnce UnknownIsReported TrustSurvives
PROPERTIES OnlyTheOwnerTrusts AlertsGetOut
