SPECIFICATION Spec
CONSTANTS
  Names = {1, 2, 3}
  TYPE_NUM = 2
  MaxCalls = 3
  MaxReports = 2
INVARIANTS TableInv ReportsAreExact
PROPERTIES NoThreadIsStuck
CHECK_DEADLOCK FALSE
