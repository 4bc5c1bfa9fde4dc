SPECIFICATION Spec
CONSTANTS
  Lexemes = {"?", ":", "---", "plain"}
  Names = {}
  NoName = NoName
  MaxLine = 2
  MaxCol = 1
  MaxTokens = 12
INVARIANT PendingKeyInDocument
