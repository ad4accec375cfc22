CONSTANTS
  Writer = {p1}
  First = {a, b}
  Rest = {x, y}
  NSlots = 11
  Layouts <- AllLayouts
  Outcomes = {TRUE, FALSE}
  MaxWrites = 3
SPECIFICATION FairSpec
INVARIANTS
  WaitsForOwn
  FirstByteEchoed
PROPERTY
  WriteReturns
