SPECIFICATION MCSpec
CONSTANTS
  empty = empty
  cold = cold
  greet = greet
  mixed = mixed
  vague = vague
  Dictionaries <- MCAll
  MAX_JOKE_NUM = 1
  QueryStyles = {0, 1, 2, 3}
  Flows = {f1, f2}
  Kinds = {"short", "bad_type", "undecodable", "query"}
  Questions <- MCQuestions
  NlpMatch <- MCNlpMatch
  EmptyQuestion = empty
  NoMatch = NoMatch
  OtherTag = OtherTag
  MaxBatch = 2
  RequestCap = 2
  ResponseCap = 1
  MaxRequests = 3
  MaxFaults = 1
INVARIANTS CountersInv ReplyToOwnFlow AnswersFitTheQuestion
PROPERTIES NoSilentLoss ImplementsService EveryRequestConcludes
CHECK_DEADLOCK FALSE
