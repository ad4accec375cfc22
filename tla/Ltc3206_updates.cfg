CONSTANTS
  Label = {"green", "blue", "main"}
  Brightness = {{0, 2}, {4}}
  MaxCall = 2
  MaxBind = 2
  MaxFault = 1
SPECIFICATION Spec
INVARIANTS
  ChipShowsCommand
  ColoursAsAsked

  
CHECK_DEADLOCK FALSE
