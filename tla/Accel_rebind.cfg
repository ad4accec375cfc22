CONSTANTS
  User = {u1, u2}
  Rates = {24, 300}
  Full = 4096
  MaxTap = 2
  MaxFault = 1
  MaxCall = 2
  MaxBind = 2
SPECIFICATION FairSpec
INVARIANTS
  NoUseAfterFree
  TouchMeansTap
  SerialCallsAgree
PROPERTY
  RemoveEnds
CHECK_DEADLOCK FALSE
