SPECIFICATION Spec
CONSTANTS
  Lexemes = {"-", "---", "plain"}
  Names = {}
  NoName = NoName
  MaxLine = 1
  MaxCol = 2
  MaxTokens = 12
INVARIANT MarkerClosesBlocks
