CONSTANTS
  Dummy = Dummy
  Other = Other
  Empty = Empty
  MaxScan = 3
  MaxCalls = 3
SPECIFICATION FairSpec
INVARIANTS
  
  ScanReportedOnce
  
PROPERTIES
  EveryScanCompletes
