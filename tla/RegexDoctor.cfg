SPECIFICATION DoctorSpec
CONSTANTS
  p = p
  q = q
  Handler = {h1, h2}
  Pattern = {p, q}
  Malformed = Malformed
  Short = Short
  Contents <- MCContents
  Missing = Missing
  None = None
  Loader = Loader
  MaxEdits = 1
  MaxQuestions = 1
  m_allow_token = TRUE
  Tables <- MCTables
  WrongFields = WrongFields
  u_size = 2
  MaxFaults = 2
  Question <- MCQuestion
INVARIANTS LoadInv IndexInv
PROPERTIES MatchesAWholeTable EditsTakeEffect LookupsGoByBeginnings
CHECK_DEADLOCK FALSE
