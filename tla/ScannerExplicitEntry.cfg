SPECIFICATION Spec
CONSTANTS
  Lexemes = {"?", ":", "[", "]", ",", "quoted"}
  Names = {}
  NoName = NoName
  MaxLine = 0
  MaxCol = 4
  MaxTokens = 12
INVARIANT ExplicitKeyContent
