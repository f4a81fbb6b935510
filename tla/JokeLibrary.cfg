SPECIFICATION Spec
CONSTANTS
  MCStyles = {0, 1, 2}
  MaxLines = 4
  Words = {w1, w2}
  Skip = Skip
  Missing = Missing
  W32 = 16
  MAX_JOKE_NUM = 2
  QueryStyles = {0, 1, 2}
  JokeFiles <- MCJokeFiles
  TypeFiles <- MCTypeFiles
  Dictionaries <- MCDictionaries
INVARIANTS TypeOK LoadsTheFile AnswersAreRight CrashOnlyOnGap
PROPERTIES NoReturnWhenScarce CallReturns
CHECK_DEADLOCK FALSE
