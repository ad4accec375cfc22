CONSTANTS
  Led = {red, green, blue}
  Writer = {w1}
  Thread = {t1}
  Input = {9, 10, 15, 9995, 10000, 10001}
  Word = 65536
  MaxKey = 2
  None = None
SPECIFICATION FairSpec
INVARIANTS
  PeriodInRange
  AtMostOneLit
  ThreadTracked
  
PROPERTY
  EveryWriteReturns
