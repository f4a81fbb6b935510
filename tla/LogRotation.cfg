SPECIFICATION LogSpec
CONSTANTS
  m_iLogMaxSize = 2
  m_iLogMaxNum = 4
  MaxLogged = 14
  MaxFaults = 3
INVARIANTS OldestLostFirst EnoughIsKept GrowthIsBounded
CHECK_DEADLOCK FALSE
