SPECIFICATION TimeSpec
CONSTANTS
  USEC = 4
  W64 = 64
  W32 = 16
  T1 = 1
  T2 = 3
  T3 = 6
  Differences <- MCDifferences
  MaxTimed = 4
INVARIANTS SumInv SpansAreCounted
CHECK_DEADLOCK FALSE
