SPECIFICATION Spec
CONSTANTS
  empty = empty
  cold = cold
  greet = greet
  mixed = mixed
  vague = vague
  Dictionaries <- MCDense
  MAX_JOKE_NUM = 1
  QueryStyles = {0, 1, 2, 3}
  Flows = {f1, f2}
  Kinds = {"short", "bad_type", "undecodable", "query"}
  Questions <- MCQuestions
  NlpMatch <- MCNlpMatch
  EmptyQuestion = empty
  NoMatch = NoMatch
  OtherTag = OtherTag
  MaxBatch = 2
  RequestCap = 2
  ResponseCap = 1
  MaxRequests = 2
  MaxFaults = 1
INVARIANT FoundJokesAreAnswered
CHECK_DEADLOCK FALSE
