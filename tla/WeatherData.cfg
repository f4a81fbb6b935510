SPECIFICATION Spec
CONSTANTS
  a = a
  ab = ab
  Area = {a, ab}
  Alike <- MCAlike
  NoArea = NoArea
  m_default_area = NoArea
  Contents <- MCContents
  IndexFiles <- MCIndexFiles
  Missing = Missing
  Start <- MCStart
  Target <- MCTarget
  MaxDay = 2
  MaxFetches = 1
INVARIANTS TablesInv
PROPERTIES DatesDriftWithTheClock HintsOfTheFirstDay UndefinedForCause TextsFitTheDay TodaysFileIsLoaded
CHECK_DEADLOCK FALSE
