SPECIFICATION Spec
CONSTANTS
  Lexemes = {"-", "quoted"}
  Names = {}
  NoName = NoName
  MaxLine = 1
  MaxCol = 2
  MaxTokens = 12
PROPERTY QuotedInBlock
