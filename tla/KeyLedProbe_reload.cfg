SPECIFICATION Spec
CONSTANTS
  NLed = 3
  MaxLoad = 4
INVARIANTS
  WritesSafe
  LeftBehind
CHECK_DEADLOCK FALSE
