SPECIFICATION WordsSpec
CONSTANTS
  Chars = {"lower", "upper", "digit", "dot", "punct", "blank", "high"}
  Delimiters <- MCDelimiters
  MaxLength = 5
  Pieces <- MCPieces
  MaxPieces = 5
INVARIANTS SplitInv LowerCasingsAgree KindsAgree
